---- MODULE Spec2Model ----
(***************************************************************************)
(* State-machine model of the call-session lifecycle engine of the         *)
(* ConsultOnCall socket server: rooms.js (RoomManager: registry and call   *)
(* store), events.js (EventHandler: the socket event handlers) and         *)
(* socket.js (wiring of the handlers to socket events).                    *)
(*                                                                         *)
(* Node runs every handler on one event loop: a handler runs atomically    *)
(* up to its next `await`, so each action below is the code between two    *)
(* awaits.  A handler suspended at an await is a record in `pending`; its  *)
(* continuation is a separate action that receives the backend's answer,   *)
(* which is chosen nondeterministically (the backend is external).         *)
(***************************************************************************)
EXTENDS Integers, Sequences, FiniteSets, TLC

\* ---------------------------------------------------------------- bounds
\* Date.now() when the server starts (ms); positive, as any real clock value.
T0 == 1000
\* One step of the model clock (ms): longer than every timeout of the
\* program, and not a multiple of 1000, so that the floor in getCallDuration
\* is exercised.
TickMs == 60500
\* Number of clock steps in a behaviour.
MaxTicks == 1
\* Socket events that pass validation and find their session, per behaviour.
MaxEvents == 3

\* ------------------------------------------------------ program constants
CALL_TIMEOUT == 60000
DEGRADED_TIMEOUT == 15000
HEARTBEAT_TIMEOUT == 15000

\* ------------------------------------------------------------ value sets
Sockets == {"s1", "s2"}
\* The connection the calling client uses and the one the expert's client uses.
CallerSockets == {"s1"}
ExpertSockets == {"s2"}
UserIds == {"u1"}
ExpertIds == {"e1"}
CallIds == {"c1", "c2"}

\* JavaScript `undefined` for an id / socket id, and `null` for a timestamp
\* (both are falsy, as the empty string and 0 are).
NoId == ""
Null == 0

VARIABLES
    now,            \* Date.now()
    sockets,        \* io.sockets.sockets: state of every connection
    userSockets,    \* rooms.userSockets: userId -> socketId
    expertSockets,  \* rooms.expertSockets: expertId -> socketId
    socketToUser,   \* rooms.socketToUser: socketId -> {userId, userType}
    onlineExperts,  \* rooms.onlineExperts
    activeCalls,    \* rooms.activeCalls: callId -> call
    callTimeouts,   \* EventHandler.callTimeouts: callId -> timer
    timers,         \* timers armed with setTimeout and neither fired nor cleared
    pending,        \* handlers suspended at an await
    events,         \* number of socket events handled so far
    lastOp,         \* the handler step taken last and what it answered
    out,            \* notifications emitted by the last step, in order
    reqs,           \* backend requests issued by the last step, in order
    connectedAt,    \* history: callId -> when its session first became connected
    replaced,       \* history: callIds whose stored session a call request still
                    \* in flight has overwritten
    cut,            \* history: callIds whose session the disconnect path removed
    terminated      \* history, kept where terminations are counted: the callIds
                    \* whose caller has had a terminal notification, and those
                    \* whose termination has been broadcast as busy(false)

vars == << now, sockets, userSockets, expertSockets, socketToUser, onlineExperts,
           activeCalls, callTimeouts, timers, pending, events, lastOp, out, reqs,
           connectedAt, replaced, cut, terminated >>

\* ------------------------------------------------------------ Map helpers
\* Map.prototype.set
MapSet(m, k, v) == [x \in (DOMAIN m) \cup {k} |-> IF x = k THEN v ELSE m[x]]
\* Map.prototype.delete
MapDelete(m, k) == [x \in (DOMAIN m) \ {k} |-> m[x]]
\* Map.prototype.get, with `undefined` given as the caller's default
MapGet(m, k, undef) == IF k \in DOMAIN m THEN m[k] ELSE undef
EmptyMap == << >>

\* --------------------------------------------------------- notifications
\* One emitted notification: `to` is a socket id, a room (an identity) or
\* "all" for io.emit.
Msg(ev, to, callId, expertId, duration, flag, reason) ==
    [ev |-> ev, to |-> to, callId |-> callId, expertId |-> expertId,
     duration |-> duration, flag |-> flag, reason |-> reason]
NoDuration == 0 - 1

\* One backend request.
Req(api, id, arg) == [api |-> api, id |-> id, arg |-> arg]

\* What a handler step answered: result is "ok", "not_found", "invalid", one
\* of the failures of a call request (Failures), or "none" (no callback
\* invoked by this step).
Op(op, socket, callId, result, ret) ==
    [op |-> op, socket |-> socket, callId |-> callId, result |-> result, ret |-> ret]

\* { success: false } answers of a call request, by error message: expert
\* offline (line 155), on another call (lines 161 and 183), unavailable (line
\* 200), backend error (lines 227 and 269).
Failures == {"offline", "busy", "unavailable", "backend_error"}

\* Smallest copy number that makes record r distinct from every record of S
\* (two equal requests in flight, or two equal timers, are two objects).
Fresh(S, r) ==
    LET used == {x.n : x \in {y \in S : [y EXCEPT !.n = 0] = [r EXCEPT !.n = 0]}}
    IN  [r EXCEPT !.n = CHOOSE k \in 0..Cardinality(S) : k \notin used /\ \A j \in 0..(k - 1) : j \in used]

\* A handler suspended at an await, with the locals its continuation reads.
Pend(kind, stage, socket, callId, userId, expertId, isOnline, userSocketId, expertSocketId, duration) ==
    [kind |-> kind, stage |-> stage, socket |-> socket, callId |-> callId,
     userId |-> userId, expertId |-> expertId, isOnline |-> isOnline,
     userSocketId |-> userSocketId, expertSocketId |-> expertSocketId,
     duration |-> duration, n |-> 0]

\* A timer object returned by setTimeout.
Timer(callId, kind, due) == [callId |-> callId, kind |-> kind, due |-> due, n |-> 0]

\* Answers of GET /api/experts/status/:id; ok = FALSE is a failed request.
StatusResponses ==
    {[ok |-> FALSE, isOnline |-> FALSE, isBusy |-> FALSE]} \cup
    {[ok |-> TRUE, isOnline |-> o, isBusy |-> b] : o \in BOOLEAN, b \in BOOLEAN}

\* ------------------------------------------------------------- rooms.js
\* RoomManager.getUserSocket / getExpertSocket
getUserSocket(userId) == MapGet(userSockets, userId, NoId)
getExpertSocket(expertId) == MapGet(expertSockets, expertId, NoId)

\* RoomManager.isExpertOnline
isExpertOnline(expertId) ==
    expertId \in onlineExperts /\ expertId \in DOMAIN expertSockets

\* RoomManager.isExpertBusy
isExpertBusy(calls, expertId) ==
    \E c \in DOMAIN calls :
        /\ calls[c].expertId = expertId
        /\ calls[c].status \in {"ringing", "connected"}

\* RoomManager.getExpertActiveCalls (the callIds of the snapshot)
getExpertActiveCalls(calls, expertId) ==
    {c \in DOMAIN calls : calls[c].expertId = expertId}

\* RoomManager.createCall
createCall(calls, callId, userId, expertId, userSocketId, expertSocketId, callerInfo, t) ==
    MapSet(calls, callId,
           [userId |-> userId, expertId |-> expertId,
            userSocketId |-> userSocketId, expertSocketId |-> expertSocketId,
            callerInfo |-> callerInfo, status |-> "ringing",
            createdAt |-> t, startTime |-> Null])

\* RoomManager.getCall: presence test
hasCall(calls, callId) == callId \in DOMAIN calls

\* updateCallStatus without the `!call.startTime` test of line 109: every
\* connected update stamps startTime again.
updateCallStatus_restamps(calls, callId, status, t) ==
    IF callId \in DOMAIN calls
    THEN [calls EXCEPT ![callId] =
              [@ EXCEPT !.status = status,
                        !.startTime = IF status = "connected" THEN t ELSE @]]
    ELSE calls

\* RoomManager.updateCallStatus
updateCallStatus(calls, callId, status, t) ==
    IF callId \in DOMAIN calls
    THEN [calls EXCEPT ![callId] =
              [@ EXCEPT !.status = status,
                        !.startTime = IF status = "connected" /\ @ = Null THEN t ELSE @]]
    ELSE calls

\* endCall without the delete of line 134: the session stays in the store.
endCall_keeps(calls, callId) == calls

\* RoomManager.endCall
endCall(calls, callId) ==
    IF callId \in DOMAIN calls THEN MapDelete(calls, callId) ELSE calls

\* getCallDuration without Math.floor(... / 1000): milliseconds, not seconds.
getCallDuration_ms(calls, callId, t) ==
    IF callId \in DOMAIN calls /\ calls[callId].startTime # Null
    THEN t - calls[callId].startTime
    ELSE 0

\* RoomManager.getCallDuration
getCallDuration(calls, callId, t) ==
    IF callId \in DOMAIN calls /\ calls[callId].startTime # Null
    THEN (t - calls[callId].startTime) \div 1000
    ELSE 0

\* RoomManager.removeSocket: the three maps and the store after the call
removeSocket_userSockets(socketId) ==
    IF socketId \in DOMAIN socketToUser /\ socketToUser[socketId].userType = "user"
    THEN MapDelete(userSockets, socketToUser[socketId].userId)
    ELSE userSockets

removeSocket_expertSockets(socketId) ==
    IF socketId \in DOMAIN socketToUser /\ socketToUser[socketId].userType = "expert"
    THEN MapDelete(expertSockets, socketToUser[socketId].userId)
    ELSE expertSockets

removeSocket_socketToUser(socketId) == MapDelete(socketToUser, socketId)

removeSocket_activeCalls(calls, socketId) ==
    IF socketId \in DOMAIN socketToUser
    THEN [c \in {x \in DOMAIN calls :
                    /\ calls[x].userSocketId # socketId
                    /\ calls[x].expertSocketId # socketId} |-> calls[c]]
    ELSE calls

\* clearTimeout(this.callTimeouts.get(callId)); this.callTimeouts.delete(callId)
clearCallTimeout_timers(callId) ==
    IF callId \in DOMAIN callTimeouts THEN timers \ {callTimeouts[callId]} ELSE timers
clearCallTimeout_map(callId) == MapDelete(callTimeouts, callId)

\* ------------------------------------------------------------------ Init
Init ==
    /\ now = T0
    /\ sockets = [s \in Sockets |-> "new"]
    /\ userSockets = EmptyMap
    /\ expertSockets = EmptyMap
    /\ socketToUser = EmptyMap
    /\ onlineExperts = {}
    /\ activeCalls = EmptyMap
    /\ callTimeouts = EmptyMap
    /\ timers = {}
    /\ pending = {}
    /\ events = 0
    /\ lastOp = Op("init", NoId, NoId, "none", 0)
    /\ out = << >>
    /\ reqs = << >>
    /\ connectedAt = EmptyMap
    /\ replaced = {}
    /\ cut = {}
    /\ terminated = [caller |-> {}, busy |-> {}]

\* A handler started by an event of this connection is suspended at an await.
Awaiting(socket) ==
    \E p \in pending : p.socket = socket /\ p.kind \in {"register", "call_request", "end"}
\* socket.on(...): an event of an open connection is dispatched to its handler.
\* A client sends its next event when the previous one has been answered, so
\* the handlers suspended at a time are bounded by the connections.
SocketEvent(socket) == sockets[socket] = "open" /\ ~Awaiting(socket)
\* The handler changes state: it uses one unit of the behaviour's event budget.
\* (A handler that rejects its input and changes nothing uses none.)
Counted == events < MaxEvents /\ events' = events + 1

registryVars == << userSockets, expertSockets, socketToUser, onlineExperts >>
timerVars == << callTimeouts, timers >>

\* The clock advances by one step.  A backend request is answered (or fails)
\* within one clock step, so the clock does not advance under a suspended
\* handler.  The program reads the clock only to stamp sessions and to arm
\* timers, and only differences of these stamps are used: behaviours are
\* taken up to a shift of the clock, the clock starting with the first
\* session or timer.
Tick ==
    /\ now < T0 + MaxTicks * TickMs
    /\ pending = {}
    /\ activeCalls # EmptyMap \/ timers # {}
    /\ now' = now + TickMs
    /\ lastOp' = Op("tick", NoId, NoId, "none", 0)
    /\ out' = << >>
    /\ reqs' = << >>
    /\ UNCHANGED << sockets, registryVars, activeCalls, timerVars, pending, events >>

\* io.on('connection'): a new connection opens (connections being
\* interchangeable until they register, the caller's is taken to open first).
connection(socket) ==
    /\ sockets[socket] = "new"
    /\ \A c \in CallerSockets : socket \in ExpertSockets => sockets[c] # "new"
    /\ sockets' = [sockets EXCEPT ![socket] = "open"]
    /\ lastOp' = Op("connection", socket, NoId, "none", 0)
    /\ out' = << >>
    /\ reqs' = << >>
    /\ UNCHANGED << now, registryVars, activeCalls, timerVars, pending, events >>

\* --------------------------------------------------- events.js: register
\* The two broadcasts and the confirmation that end an expert registration.
registerEmits(socket, expertId, isOnline, isBusy) ==
    << Msg("expert_status_changed", "all", NoId, expertId, NoDuration, isOnline, ""),
       Msg("expert_busy_changed", "all", NoId, expertId, NoDuration, isBusy, ""),
       Msg("registered", socket, NoId, expertId, NoDuration, TRUE, "") >>

\* EventHandler.handleRegister, up to `await axios.get(status)` for an expert
\* and to its end for a user (or for invalid data).
handleRegister(socket, userId, userType) ==
    /\ IF userId = NoId
       THEN /\ lastOp' = Op("register", NoId, NoId, "invalid", 0)
            /\ out' = << >>
            /\ reqs' = << >>
            /\ UNCHANGED << registryVars, pending, events >>
       ELSE IF userType = "expert"
       THEN /\ Counted
            /\ userSockets' = MapSet(userSockets, userId, socket)
            /\ socketToUser' = MapSet(socketToUser, socket, [userId |-> userId, userType |-> "expert"])
            /\ expertSockets' = MapSet(expertSockets, userId, socket)
            /\ pending' = pending \cup
                   {Fresh(pending, Pend("register", "status", socket, NoId, userId, userId, FALSE, NoId, NoId, 0))}
            /\ lastOp' = Op("register", socket, NoId, "none", 0)
            /\ out' = << >>
            /\ reqs' = << Req("GET status", userId, "") >>
            /\ UNCHANGED onlineExperts
       ELSE /\ Counted
            /\ userSockets' = MapSet(userSockets, userId, socket)
            /\ socketToUser' = MapSet(socketToUser, socket, [userId |-> userId, userType |-> "user"])
            /\ lastOp' = Op("register", socket, NoId, "ok", 0)
            /\ out' = << Msg("registered", socket, NoId, userId, NoDuration, TRUE, "") >>
            /\ reqs' = << >>
            /\ UNCHANGED << expertSockets, onlineExperts, pending >>
    /\ UNCHANGED << now, sockets, activeCalls, timerVars >>

\* handleRegister resumed with the answer to GET status.
handleRegister_status(p, resp) ==
    /\ p \in pending /\ p.kind = "register" /\ p.stage = "status"
    /\ IF ~resp.ok
       THEN /\ pending' = pending \ {p}
            /\ out' = << Msg("registered", p.socket, NoId, p.expertId, NoDuration, TRUE, "") >>
            /\ reqs' = << >>
            /\ UNCHANGED onlineExperts
       ELSE IF resp.isBusy /\ getExpertActiveCalls(activeCalls, p.expertId) = {}
       THEN /\ pending' = (pending \ {p}) \cup
                   {Fresh(pending \ {p}, [p EXCEPT !.stage = "clear", !.isOnline = resp.isOnline])}
            /\ out' = << >>
            /\ reqs' = << Req("PUT set-online-internal", p.expertId, "isBusy=false") >>
            /\ UNCHANGED onlineExperts
       ELSE /\ pending' = pending \ {p}
            /\ onlineExperts' = IF resp.isOnline THEN onlineExperts \cup {p.expertId}
                                                 ELSE onlineExperts \ {p.expertId}
            /\ out' = registerEmits(p.socket, p.expertId, resp.isOnline, resp.isBusy)
            /\ reqs' = << >>
    /\ lastOp' = Op("register_status", p.socket, NoId, "none", 0)
    /\ UNCHANGED << now, sockets, userSockets, expertSockets, socketToUser,
                    activeCalls, timerVars, events >>

\* handleRegister resumed with the outcome of the busy-clearing PUT.
handleRegister_clear(p, ok) ==
    /\ p \in pending /\ p.kind = "register" /\ p.stage = "clear"
    /\ pending' = pending \ {p}
    /\ onlineExperts' = IF p.isOnline THEN onlineExperts \cup {p.expertId}
                                      ELSE onlineExperts \ {p.expertId}
    /\ out' = registerEmits(p.socket, p.expertId, p.isOnline, ~ok)
    /\ reqs' = << >>
    /\ lastOp' = Op("register_clear", p.socket, NoId, "none", 0)
    /\ UNCHANGED << now, sockets, userSockets, expertSockets, socketToUser,
                    activeCalls, timerVars, events >>

\* ----------------------------------------------- events.js: call request
\* A call request answered with { success: false } and nothing else done.
callRequestFails(p, opname, error) ==
    /\ pending' = pending \ {p}
    /\ lastOp' = Op(opname, p.socket, p.callId, error, 0)
    /\ out' = << >>
    /\ reqs' = << >>
    /\ UNCHANGED << activeCalls, timerVars >>

\* EventHandler.handleCallRequest up to `await axios.get(status)`.
\* dataUserId is data.userId (NoId when the client left it out).
handleCallRequest(socket, callId, dataUserId, expertId) ==
    LET derivedUserId ==
            IF socket \in DOMAIN socketToUser /\ socketToUser[socket].userType = "user"
            THEN socketToUser[socket].userId ELSE NoId
        userId == IF dataUserId # NoId THEN dataUserId ELSE derivedUserId
    IN  /\ IF callId = NoId \/ userId = NoId \/ expertId = NoId
           THEN /\ lastOp' = Op("call_request", NoId, callId, "invalid", 0)
                /\ reqs' = << >>
                /\ UNCHANGED << pending, events >>
           ELSE /\ Counted
                /\ pending' = pending \cup
                       {Fresh(pending, Pend("call_request", "status", socket, callId, userId, expertId, FALSE, socket, NoId, 0))}
                /\ lastOp' = Op("call_request", socket, callId, "none", 0)
                /\ reqs' = << Req("GET status", expertId, "") >>
        /\ out' = << >>
        /\ UNCHANGED << now, sockets, registryVars, activeCalls, timerVars >>

\* The backend's answer as read at lines 129-136: a failed request counts as
\* offline and not busy.
dbOnline(resp) == resp.ok /\ resp.isOnline
\* The busy check of lines 158-163 left out: the backend's isBusy is ignored.
dbBusy_ignored(resp) == FALSE
dbBusy(resp) == resp.ok /\ resp.isBusy

\* handleCallRequest resumed with the answer to GET status: the availability
\* and busy checks (lines 139-185), then the next await (ringing PUT on the
\* path without an expert socket, caller-info GET otherwise).
handleCallRequest_status(p, resp) ==
    LET expertSocketId == getExpertSocket(p.expertId)
    IN  /\ p \in pending /\ p.kind = "call_request" /\ p.stage = "status"
        /\ IF ~(dbOnline(resp) \/ isExpertOnline(p.expertId))
           THEN callRequestFails(p, "call_request_status", "offline")
           ELSE IF dbBusy(resp)
           THEN callRequestFails(p, "call_request_status", "busy")
           ELSE IF isExpertBusy(activeCalls, p.expertId)
           THEN callRequestFails(p, "call_request_status", "busy")
           ELSE IF expertSocketId = NoId
           THEN IF ~dbOnline(resp)
                THEN callRequestFails(p, "call_request_status", "unavailable")
                ELSE /\ pending' = (pending \ {p}) \cup
                            {Fresh(pending \ {p}, [p EXCEPT !.stage = "ringing_degraded"])}
                     /\ lastOp' = Op("call_request_status", p.socket, p.callId, "none", 0)
                     /\ out' = << >>
                     /\ reqs' = << Req("PUT ringing", p.callId, "") >>
                     /\ UNCHANGED << activeCalls, timerVars >>
           ELSE /\ pending' = (pending \ {p}) \cup
                       {Fresh(pending \ {p}, [p EXCEPT !.stage = "caller_info", !.expertSocketId = expertSocketId])}
                /\ lastOp' = Op("call_request_status", p.socket, p.callId, "none", 0)
                /\ out' = << >>
                /\ reqs' = << Req("GET user", p.userId, "") >>
                /\ UNCHANGED << activeCalls, timerVars >>
        /\ UNCHANGED << now, sockets, registryVars, events >>

\* setTimeout(...) followed by this.callTimeouts.set(callId, timeout)
armTimer_timers(callId, kind, due) == timers \cup {Fresh(timers, Timer(callId, kind, due))}
armTimer_map(callId, kind, due) == MapSet(callTimeouts, callId, Fresh(timers, Timer(callId, kind, due)))

\* handleCallRequest resumed with the outcome of the ringing PUT on the path
\* without an expert socket (lines 206-229): no session is created, only the
\* 15 s timer is armed.
handleCallRequest_ringing_degraded(p, ok) ==
    /\ p \in pending /\ p.kind = "call_request" /\ p.stage = "ringing_degraded"
    /\ pending' = pending \ {p}
    /\ IF ok
       THEN /\ timers' = armTimer_timers(p.callId, "degraded", now + DEGRADED_TIMEOUT)
            /\ callTimeouts' = armTimer_map(p.callId, "degraded", now + DEGRADED_TIMEOUT)
            /\ lastOp' = Op("call_request_degraded", p.socket, p.callId, "ok", 0)
       ELSE /\ lastOp' = Op("call_request_degraded", p.socket, p.callId, "backend_error", 0)
            /\ UNCHANGED timerVars
    /\ out' = << >>
    /\ reqs' = << >>
    /\ UNCHANGED << now, sockets, registryVars, activeCalls, events >>

\* handleCallRequest resumed with the outcome of the caller-info GET: the
\* session is created and the ringing PUT is issued (lines 240-259).
handleCallRequest_caller_info(p, ok) ==
    /\ p \in pending /\ p.kind = "call_request" /\ p.stage = "caller_info"
    /\ activeCalls' = createCall(activeCalls, p.callId, p.userId, p.expertId, p.userSocketId,
                                 p.expertSocketId, IF ok THEN "fetched" ELSE "Unknown Caller", now)
    /\ pending' = (pending \ {p}) \cup {Fresh(pending \ {p}, [p EXCEPT !.stage = "ringing"])}
    /\ lastOp' = Op("call_request_caller_info", p.socket, p.callId, "none", 0)
    /\ out' = << >>
    /\ reqs' = << Req("PUT ringing", p.callId, "") >>
    /\ UNCHANGED << now, sockets, registryVars, timerVars, events >>

\* handleCallRequest resumed with the outcome of the ringing PUT (lines
\* 260-328): rollback on failure; otherwise notify the expert, broadcast
\* busy, arm the ring timer and answer the caller.
handleCallRequest_ringing(p, ok) ==
    /\ p \in pending /\ p.kind = "call_request" /\ p.stage = "ringing"
    /\ pending' = pending \ {p}
    /\ IF ~ok
       THEN /\ activeCalls' = endCall(activeCalls, p.callId)
            /\ lastOp' = Op("call_request_ringing", p.socket, p.callId, "backend_error", 0)
            /\ out' = << >>
            /\ UNCHANGED timerVars
       ELSE /\ out' = << Msg("incoming_call", p.expertSocketId, p.callId, p.expertId, NoDuration, TRUE, ""),
                         Msg("incoming_call", p.expertId, p.callId, p.expertId, NoDuration, TRUE, ""),
                         Msg("expert_busy_changed", "all", NoId, p.expertId, NoDuration, TRUE, "") >>
            /\ timers' = armTimer_timers(p.callId, "normal", now + CALL_TIMEOUT)
            /\ callTimeouts' = armTimer_map(p.callId, "normal", now + CALL_TIMEOUT)
            /\ lastOp' = Op("call_request_ringing", p.socket, p.callId, "ok", 0)
            /\ UNCHANGED activeCalls
    /\ reqs' = << >>
    /\ UNCHANGED << now, sockets, registryVars, events >>

\* ------------------------------------------------- events.js: ring timer
\* EventHandler.handleCallTimeout up to `await axios.put(status missed)`;
\* the `call` object read at line 334 stays with the suspended handler.
handleCallTimeout(callId, opname) ==
    IF ~hasCall(activeCalls, callId)
    THEN /\ lastOp' = Op(opname, NoId, callId, "not_found", 0)
         /\ reqs' = << >>
         /\ UNCHANGED pending
    ELSE /\ pending' = pending \cup
                {Fresh(pending, Pend("timeout", "missed", NoId, callId, activeCalls[callId].userId,
                                     activeCalls[callId].expertId, FALSE,
                                     activeCalls[callId].userSocketId,
                                     activeCalls[callId].expertSocketId, 0))}
         /\ lastOp' = Op(opname, NoId, callId, "none", 0)
         /\ reqs' = << Req("PUT status", callId, "missed") >>

\* A timer callback without the session checks of lines 318-319 and 335: it
\* asks the backend to mark the call missed whether or not a session is stored.
timerFires_unchecked(t) ==
    /\ t \in timers
    /\ now >= t.due
    /\ timers' = timers \ {t}
    /\ pending' = pending \cup
           {Fresh(pending, Pend("timeout", "missed", NoId, t.callId, NoId, NoId, FALSE, NoId, NoId, 0))}
    /\ lastOp' = Op("timer_" \o t.kind, NoId, t.callId, "none", 0)
    /\ reqs' = << Req("PUT status", t.callId, "missed") >>
    /\ out' = << >>
    /\ UNCHANGED << now, sockets, registryVars, activeCalls, callTimeouts, events >>

\* The callback of the timer armed at lines 317-323 (kind "normal", which
\* checks that the session is still ringing) or at lines 215-217 (kind
\* "degraded", which calls handleCallTimeout directly) runs.
timerFires(t) ==
    /\ t \in timers
    /\ now >= t.due
    /\ timers' = timers \ {t}
    /\ IF t.kind = "normal" /\ ~(hasCall(activeCalls, t.callId) /\ activeCalls[t.callId].status = "ringing")
       THEN /\ lastOp' = Op("timer_" \o t.kind, NoId, t.callId, "skipped", 0)
            /\ reqs' = << >>
            /\ UNCHANGED pending
       ELSE handleCallTimeout(t.callId, "timer_" \o t.kind)
    /\ out' = << >>
    /\ UNCHANGED << now, sockets, registryVars, activeCalls, callTimeouts, events >>

\* handleCallTimeout resumed after the missed-mark PUT (lines 346-364),
\* whatever its outcome.
handleCallTimeout_missed(p, ok) ==
    /\ p \in pending /\ p.kind = "timeout"
    /\ pending' = pending \ {p}
    /\ out' = << Msg("call_timeout", p.userSocketId, p.callId, p.expertId, NoDuration, TRUE, ""),
                 Msg("expert_busy_changed", "all", NoId, p.expertId, NoDuration, FALSE, "") >>
    /\ activeCalls' = endCall(activeCalls, p.callId)
    /\ callTimeouts' = MapDelete(callTimeouts, p.callId)
    /\ lastOp' = Op("call_timeout", NoId, p.callId, "none", 0)
    /\ reqs' = << >>
    /\ UNCHANGED << now, sockets, registryVars, timers, events >>

\* ------------------------------ events.js: accept, reject, call-connected
\* A not-found answer that also notifies the requester of an acceptance.
callNotFound_notifies(opname, socket, callId) ==
    /\ lastOp' = Op(opname, NoId, callId, "not_found", 0)
    /\ out' = << Msg("call_accepted", socket, callId, NoId, NoDuration, TRUE, "") >>
    /\ reqs' = << >>
    /\ UNCHANGED << activeCalls, timerVars, pending, events >>

\* A handler that found no session: { success: false, error: 'Call not found' }.
callNotFound(opname, socket, callId) ==
    /\ lastOp' = Op(opname, NoId, callId, "not_found", 0)
    /\ out' = << >>
    /\ reqs' = << >>
    /\ UNCHANGED << activeCalls, timerVars, pending, events >>

\* EventHandler.handleAcceptCall
handleAcceptCall(socket, callId) ==
    /\ IF ~hasCall(activeCalls, callId)
       THEN callNotFound("accept_call", socket, callId)
       ELSE /\ Counted
            /\ timers' = clearCallTimeout_timers(callId)
            /\ callTimeouts' = clearCallTimeout_map(callId)
            /\ activeCalls' = updateCallStatus(activeCalls, callId, "accepted", now)
            /\ out' = << Msg("call_accepted", activeCalls[callId].userSocketId, callId,
                             activeCalls[callId].expertId, NoDuration, TRUE, "") >>
            /\ lastOp' = Op("accept_call", socket, callId, "ok", 0)
            /\ reqs' = << >>
            /\ UNCHANGED pending
    /\ UNCHANGED << now, sockets, registryVars >>

\* EventHandler.handleRejectCall; reason is data.reason ("" when left out).
handleRejectCall(socket, callId, reason) ==
    /\ IF ~hasCall(activeCalls, callId)
       THEN callNotFound("reject_call", socket, callId)
       ELSE /\ Counted
            /\ timers' = clearCallTimeout_timers(callId)
            /\ callTimeouts' = clearCallTimeout_map(callId)
            /\ activeCalls' = endCall(activeCalls, callId)
            /\ out' = << Msg("call_rejected", activeCalls[callId].userSocketId, callId,
                             activeCalls[callId].expertId, NoDuration, TRUE,
                             IF reason # "" THEN reason ELSE "Expert declined the call"),
                         Msg("expert_busy_changed", "all", NoId, activeCalls[callId].expertId,
                             NoDuration, FALSE, "") >>
            /\ lastOp' = Op("reject_call", socket, callId, "ok", 0)
            /\ reqs' = << >>
            /\ UNCHANGED pending
    /\ UNCHANGED << now, sockets, registryVars >>

\* EventHandler.handleCallConnected; the callback carries Date.now().
handleCallConnected(socket, callId) ==
    /\ IF ~hasCall(activeCalls, callId)
       THEN callNotFound("call_connected", socket, callId)
       ELSE /\ Counted
            /\ activeCalls' = updateCallStatus(activeCalls, callId, "connected", now)
            /\ out' = << Msg("call_connected", activeCalls[callId].userSocketId, callId,
                             activeCalls[callId].expertId, NoDuration, TRUE, ""),
                         Msg("call_connected", activeCalls[callId].expertSocketId, callId,
                             activeCalls[callId].expertId, NoDuration, TRUE, "") >>
            /\ lastOp' = Op("call_connected", socket, callId, "ok", now)
            /\ reqs' = << >>
            /\ UNCHANGED << timerVars, pending >>
    /\ UNCHANGED << now, sockets, registryVars >>

\* ---------------------------------------------------- events.js: end-call
\* callEndEmits without lines 483-485: the expert side is never notified.
callEndEmits_callerOnly(call, socket, callId, duration) ==
    IF call.userSocketId # NoId /\ call.userSocketId # socket
    THEN << Msg("call_ended", call.userSocketId, callId, call.expertId, duration, TRUE, "") >>
    ELSE << >>

\* The call_ended notifications of handleCallEnd (lines 480-485): to each
\* side's connection except the requester's own.
callEndEmits(call, socket, callId, duration) ==
    (IF call.userSocketId # NoId /\ call.userSocketId # socket
     THEN << Msg("call_ended", call.userSocketId, callId, call.expertId, duration, TRUE, "") >>
     ELSE << >>) \o
    (IF call.expertSocketId # NoId /\ call.expertSocketId # socket
     THEN << Msg("call_ended", call.expertSocketId, callId, call.expertId, duration, TRUE, "") >>
     ELSE << >>)

\* EventHandler.handleCallEnd up to `await axios.get(status)`.
handleCallEnd(socket, callId) ==
    /\ IF ~hasCall(activeCalls, callId)
       THEN /\ callNotFound("end_call", socket, callId)
            /\ UNCHANGED registryVars
       ELSE LET call == activeCalls[callId]
                duration == getCallDuration(activeCalls, callId, now)
            IN  /\ Counted
                /\ out' = callEndEmits(call, socket, callId, duration) \o
                          << Msg("expert_busy_changed", "all", NoId, call.expertId, NoDuration, FALSE, "") >>
                /\ activeCalls' = endCall(activeCalls, callId)
                /\ pending' = pending \cup
                       {Fresh(pending, Pend("end", "status", socket, callId, call.userId, call.expertId,
                                            FALSE, call.userSocketId, call.expertSocketId, duration))}
                /\ lastOp' = Op("end_call", socket, callId, "none", duration)
                /\ reqs' = << Req("GET status", call.expertId, "") >>
                /\ UNCHANGED << registryVars, timerVars >>
    /\ UNCHANGED << now, sockets >>

\* handleCallEnd resumed with the answer to GET status (lines 499-521).
handleCallEnd_status(p, resp) ==
    /\ p \in pending /\ p.kind = "end"
    /\ pending' = pending \ {p}
    /\ IF resp.ok
       THEN /\ onlineExperts' = IF resp.isOnline THEN onlineExperts \cup {p.expertId}
                                                 ELSE onlineExperts \ {p.expertId}
            /\ out' = << Msg("expert_status_changed", "all", NoId, p.expertId, NoDuration, resp.isOnline, "") >>
       ELSE /\ out' = << >>
            /\ UNCHANGED onlineExperts
    /\ timers' = clearCallTimeout_timers(p.callId)
    /\ callTimeouts' = clearCallTimeout_map(p.callId)
    /\ lastOp' = Op("end_call_done", p.socket, p.callId, "ok", p.duration)
    /\ reqs' = << >>
    /\ UNCHANGED << now, sockets, userSockets, expertSockets, socketToUser, activeCalls, events >>

\* -------------------------------------------------- events.js: disconnect
\* The sessions the loop of handleDisconnect (lines 764-765) visits: those of
\* the store, as removeSocket left it, that reference the closed connection.
disconnectCalls(calls, socket) ==
    {c \in DOMAIN calls : calls[c].userSocketId = socket \/ calls[c].expertSocketId = socket}

\* Lines 768-790 for one session: call_ended to the other side's connection,
\* then the expert_busy_changed broadcast.
disconnectEmits(calls, socket, callId) ==
    LET call == calls[callId]
        isUserDisconnect == call.userSocketId = socket
        otherSocketId == IF isUserDisconnect THEN call.expertSocketId ELSE call.userSocketId
    IN  (IF otherSocketId # NoId
         THEN << Msg("call_ended", otherSocketId, callId, call.expertId,
                     getCallDuration(calls, callId, now), TRUE, "Other party disconnected") >>
         ELSE << >>) \o
        (IF call.expertId # NoId
         THEN << Msg("expert_busy_changed", "all", NoId, call.expertId, NoDuration, FALSE, "") >>
         ELSE << >>)

\* Line 796 for one session: the force-end request.
disconnectReqs(callId) == << Req("POST end-call", callId, "socket_disconnect") >>

\* The loop of lines 764-824 over a set of sessions: the notifications and
\* the backend requests it produces.
RECURSIVE disconnectLoopOut(_, _, _)
disconnectLoopOut(calls, socket, ids) ==
    IF ids = {} THEN << >>
    ELSE LET c == CHOOSE x \in ids : TRUE
         IN  disconnectEmits(calls, socket, c) \o disconnectLoopOut(calls, socket, ids \ {c})

RECURSIVE disconnectLoopReqs(_)
disconnectLoopReqs(ids) ==
    IF ids = {} THEN << >>
    ELSE LET c == CHOOSE x \in ids : TRUE
         IN  disconnectReqs(c) \o disconnectLoopReqs(ids \ {c})

\* EventHandler.handleDisconnect up to `await Promise.allSettled(...)`.
handleDisconnect(socket) ==
    LET calls == removeSocket_activeCalls(activeCalls, socket)
        ids == disconnectCalls(calls, socket)
    IN  /\ sockets[socket] = "open"
        /\ sockets' = [sockets EXCEPT ![socket] = "closed"]
        /\ userSockets' = removeSocket_userSockets(socket)
        /\ expertSockets' = removeSocket_expertSockets(socket)
        /\ socketToUser' = removeSocket_socketToUser(socket)
        /\ out' = disconnectLoopOut(calls, socket, ids)
        /\ reqs' = disconnectLoopReqs(ids)
        /\ activeCalls' = [c \in (DOMAIN calls) \ ids |-> calls[c]]
        /\ timers' = timers \ {callTimeouts[c] : c \in ids \cap DOMAIN callTimeouts}
        /\ callTimeouts' = [c \in (DOMAIN callTimeouts) \ ids |-> callTimeouts[c]]
        /\ pending' = IF ids = {} THEN pending
                      ELSE pending \cup {Fresh(pending, Pend("disconnect", "settle", socket, NoId, NoId, NoId,
                                                             FALSE, NoId, NoId, 0))}
        /\ lastOp' = Op("disconnect", socket, NoId, "none", Cardinality(ids))
        /\ UNCHANGED << now, onlineExperts, events >>

\* handleDisconnect resumed when every force-end request has settled (lines
\* 827-842): the outcomes are only logged.
handleDisconnect_settled(p, ok) ==
    /\ p \in pending /\ p.kind = "disconnect"
    /\ pending' = pending \ {p}
    /\ lastOp' = Op("disconnect_settled", p.socket, NoId, IF ok THEN "ok" ELSE "fail", 0)
    /\ out' = << >>
    /\ reqs' = << >>
    /\ UNCHANGED << now, sockets, registryVars, activeCalls, timerVars, events >>

\* ------------------------------------------------------------------ Next
\* Identities a client registers with: (socket, userId, userType); a
\* registration without userId is invalid.
RegisterInputs ==
    {<< s, u, "user" >> : s \in CallerSockets, u \in UserIds \cup {NoId}} \cup
    {<< s, e, "expert" >> : s \in ExpertSockets, e \in ExpertIds}

\* The history variables follow the step just taken: a session that
\* createCall inserts has not been connected; a session is connected from the
\* first call-connected the handler accepts for it.  A callId is replaced
\* from the createCall that overwrites its stored session until the call
\* request that did it has returned.  A callId is cut from the disconnect
\* that removes its session until a call request creates a session for it.
HistoryCore ==
    /\ cut' =
           IF lastOp'.op = "disconnect"
           THEN cut \cup ((DOMAIN activeCalls) \ (DOMAIN activeCalls'))
           ELSE IF lastOp'.op = "call_request_caller_info" THEN cut \ {lastOp'.callId}
           ELSE cut
    /\ replaced' =
           IF lastOp'.op = "call_request_caller_info"
           THEN IF lastOp'.callId \in DOMAIN activeCalls THEN replaced \cup {lastOp'.callId}
                                                         ELSE replaced \ {lastOp'.callId}
           ELSE IF lastOp'.op = "call_request_ringing" THEN replaced \ {lastOp'.callId}
           ELSE replaced
    /\ connectedAt' =
        [c \in DOMAIN activeCalls' |->
            IF lastOp'.op = "call_request_caller_info" /\ lastOp'.callId = c THEN Null
            ELSE IF lastOp'.op = "call_connected" /\ lastOp'.callId = c /\ lastOp'.result = "ok"
                    /\ connectedAt[c] = Null THEN now
            ELSE connectedAt[c]]

History == HistoryCore /\ UNCHANGED terminated

\* The registry part of the program: connections open, register and close.
NextRegistry ==
    \/ \E s \in Sockets : connection(s) /\ History
    \/ \E i \in RegisterInputs : SocketEvent(i[1]) /\ handleRegister(i[1], i[2], i[3]) /\ History
    \/ \E p \in pending, resp \in StatusResponses : handleRegister_status(p, resp) /\ History
    \/ \E p \in pending, ok \in BOOLEAN : handleRegister_clear(p, ok) /\ History
    \/ \E s \in Sockets : handleDisconnect(s) /\ History

SpecRegistry == Init /\ [][NextRegistry]_vars

\* The states in which the clients have connected and registered (or have
\* not registered: a caller may call unregistered, an expert may be known to
\* the backend only) and no call has been requested yet.  Each is reached
\* from Init by NextRegistry, up to lastOp, out, reqs and events.
Registered ==
    \E callerReg \in BOOLEAN, expertReg \in BOOLEAN, online \in BOOLEAN :
        /\ expertReg \/ ~online
        /\ now = T0
        /\ sockets = [s \in Sockets |-> "open"]
        /\ userSockets =
               [i \in (IF callerReg THEN {"u1"} ELSE {}) \cup (IF expertReg THEN {"e1"} ELSE {}) |->
                   IF i = "u1" THEN "s1" ELSE "s2"]
        /\ expertSockets = [i \in (IF expertReg THEN {"e1"} ELSE {}) |-> "s2"]
        /\ socketToUser =
               [x \in (IF callerReg THEN {"s1"} ELSE {}) \cup (IF expertReg THEN {"s2"} ELSE {}) |->
                   IF x = "s1" THEN [userId |-> "u1", userType |-> "user"]
                               ELSE [userId |-> "e1", userType |-> "expert"]]
        /\ onlineExperts = IF online THEN {"e1"} ELSE {}
        /\ activeCalls = EmptyMap
        /\ callTimeouts = EmptyMap
        /\ timers = {}
        /\ pending = {}
        /\ events = 0
        /\ lastOp = Op("init", NoId, NoId, "none", 0)
        /\ out = << >>
        /\ reqs = << >>
        /\ connectedAt = EmptyMap
        /\ replaced = {}
    /\ cut = {}
    /\ terminated = [caller |-> {}, busy |-> {}]

\* callId is referenced by a session, a timer or a suspended handler.
InUse(callId) ==
    \/ callId \in DOMAIN activeCalls
    \/ callId \in DOMAIN callTimeouts
    \/ \E t \in timers : t.callId = callId
    \/ \E p \in pending : p.callId = callId

\* Call ids are interchangeable while the state references none of them: the
\* first one a behaviour uses is taken to be "c1".
CallIdsNow == IF \E c \in CallIds : InUse(c) THEN CallIds ELSE {"c1"}

\* The call part of the program, from the registered states.
Next ==
    \/ Tick /\ History
    \/ \E s \in CallerSockets, c \in CallIdsNow, u \in UserIds \cup {NoId}, e \in ExpertIds :
           SocketEvent(s) /\ handleCallRequest(s, c, u, e) /\ History
    \/ \E p \in pending, resp \in StatusResponses : handleCallRequest_status(p, resp) /\ History
    \/ \E p \in pending, ok \in BOOLEAN : handleCallRequest_ringing_degraded(p, ok) /\ History
    \/ \E p \in pending, ok \in BOOLEAN : handleCallRequest_caller_info(p, ok) /\ History
    \/ \E p \in pending, ok \in BOOLEAN : handleCallRequest_ringing(p, ok) /\ History
    \/ \E t \in timers : timerFires(t) /\ History
    \/ \E p \in pending, ok \in BOOLEAN : handleCallTimeout_missed(p, ok) /\ History
    \/ \E s \in ExpertSockets, c \in CallIdsNow : SocketEvent(s) /\ handleAcceptCall(s, c) /\ History
    \/ \E s \in ExpertSockets, c \in CallIdsNow, r \in {"", "busy"} :
           SocketEvent(s) /\ handleRejectCall(s, c, r) /\ History
    \/ \E s \in Sockets, c \in CallIdsNow : SocketEvent(s) /\ handleCallConnected(s, c) /\ History
    \/ \E s \in Sockets, c \in CallIdsNow : SocketEvent(s) /\ handleCallEnd(s, c) /\ History
    \/ \E p \in pending, resp \in StatusResponses : handleCallEnd_status(p, resp) /\ History
    \/ \E s \in Sockets : handleDisconnect(s) /\ History
    \/ \E p \in pending, ok \in BOOLEAN : handleDisconnect_settled(p, ok) /\ History

Spec == Registered /\ [][Next]_vars

\* The scheduling the runtime guarantees: the clock advances, a due timer's
\* callback runs, and a handler suspended at a backend request is resumed
\* (every request of the program is answered, fails or times out).
Fairness ==
    /\ WF_vars(Tick /\ History)
    /\ WF_vars(\E t \in timers : timerFires(t) /\ History)
    /\ WF_vars(\E p \in pending, resp \in StatusResponses :
                   (handleCallRequest_status(p, resp) \/ handleCallEnd_status(p, resp)) /\ History)
    /\ WF_vars(\E p \in pending, ok \in BOOLEAN :
                   /\ \/ handleCallRequest_ringing_degraded(p, ok)
                      \/ handleCallRequest_caller_info(p, ok)
                      \/ handleCallRequest_ringing(p, ok)
                      \/ handleCallTimeout_missed(p, ok)
                      \/ handleDisconnect_settled(p, ok)
                   /\ History)

SpecLive == Registered /\ [][Next]_vars /\ Fairness

\* ------------------------------------- events.js: expert status change
\* The test of line 531: the connection is bound to expertId as an expert.
\* This variant leaves out the userType comparison.
boundAsExpert_anyRole(socket, expertId) ==
    socket \in DOMAIN socketToUser /\ socketToUser[socket].userId = expertId

boundAsExpert(socket, expertId) ==
    /\ socket \in DOMAIN socketToUser
    /\ socketToUser[socket].userId = expertId
    /\ socketToUser[socket].userType = "expert"

\* The broadcasts of lines 543-544; this variant takes isOnline from the
\* request payload, which the suspended handler still holds.
statusChangeEmits_payload(p, resp) ==
    << Msg("expert_status_changed", "all", NoId, p.expertId, NoDuration, p.isOnline, ""),
       Msg("expert_busy_changed", "all", NoId, p.expertId, NoDuration, resp.isBusy, "") >>

statusChangeEmits(p, resp) ==
    << Msg("expert_status_changed", "all", NoId, p.expertId, NoDuration, resp.isOnline, ""),
       Msg("expert_busy_changed", "all", NoId, p.expertId, NoDuration, resp.isBusy, "") >>

\* EventHandler.handleExpertStatusChange up to the GET it starts (line 537).
\* A client has one status change in flight at a time.
handleExpertStatusChange(socket, expertId, isOnline) ==
    /\ \A p \in pending : ~(p.kind = "status_change" /\ p.socket = socket)
    /\ IF ~boundAsExpert(socket, expertId)
       THEN /\ lastOp' = Op("expert_status_change", socket, NoId, "unauthorized", 0)
            /\ reqs' = << >>
            /\ UNCHANGED pending
       ELSE /\ pending' = pending \cup
                   {Fresh(pending, Pend("status_change", "status", socket, NoId, NoId, expertId,
                                        isOnline, NoId, NoId, 0))}
            /\ lastOp' = Op("expert_status_change", socket, NoId, "none", 0)
            /\ reqs' = << Req("GET status", expertId, "") >>
    /\ out' = << >>
    /\ UNCHANGED << now, sockets, registryVars, activeCalls, timerVars, events >>

\* The .then / .catch of lines 538-550.
handleExpertStatusChange_status(p, resp) ==
    /\ p \in pending /\ p.kind = "status_change"
    /\ pending' = pending \ {p}
    /\ out' = IF resp.ok THEN statusChangeEmits(p, resp) ELSE << >>
    /\ lastOp' = Op("expert_status_synced", p.socket, NoId, IF resp.ok THEN "ok" ELSE "fail", 0)
    /\ reqs' = << >>
    /\ UNCHANGED << now, sockets, registryVars, activeCalls, timerVars, events >>

\* -------------------------------------------- events.js: WebRTC signaling
SignalKinds == {"webrtc_offer", "webrtc_answer", "webrtc_ice"}

\* call.callerId as lines 573-578 read it: `undefined` for a record without
\* that property (createCall stores the caller under userId).
call_callerId(call) == IF "callerId" \in DOMAIN call THEN call.callerId ELSE NoId

\* targetSocketId of lines 572-583.
signalTarget(call, userData) ==
    IF userData.userId = call_callerId(call) THEN getExpertSocket(call.expertId)
    ELSE IF userData.userId = call.expertId THEN getUserSocket(call_callerId(call))
    ELSE NoId

\* EventHandler.handleWebRTCOffer / handleWebRTCAnswer / handleWebRTCIce: the
\* three differ in the event name only.
handleWebRTC(socket, kind, callId) ==
    /\ IF ~hasCall(activeCalls, callId)
       THEN /\ lastOp' = Op(kind, NoId, callId, "not_found", 0)
            /\ out' = << >>
       ELSE IF socket \notin DOMAIN socketToUser
       THEN /\ lastOp' = Op(kind, NoId, callId, "unregistered", 0)
            /\ out' = << >>
       ELSE LET call == activeCalls[callId]
                userData == socketToUser[socket]
                targetSocketId == signalTarget(call, userData)
            IN  IF userData.userId # call_callerId(call) /\ userData.userId # call.expertId
                THEN /\ lastOp' = Op(kind, NoId, callId, "unauthorized", 0)
                     /\ out' = << >>
                ELSE IF targetSocketId = NoId
                THEN /\ lastOp' = Op(kind, NoId, callId, "no_target", 0)
                     /\ out' = << >>
                ELSE /\ lastOp' = Op(kind, NoId, callId, "ok", 0)
                     /\ out' = << Msg(kind, targetSocketId, callId, call.expertId, NoDuration, TRUE, "") >>
    /\ reqs' = << >>
    /\ UNCHANGED << now, sockets, registryVars, activeCalls, timerVars, pending, events >>

\* ------------------------------------------ heartbeat.js: reconciliation
\* A reconciliation pass suspended at a backend request, with the callIds
\* it read from the store when it started (performSync, line 43).
SyncPend(stage, callIds) ==
    [kind |-> "sync", stage |-> stage, socket |-> NoId, callId |-> NoId,
     callIds |-> callIds, n |-> 0]

\* Answers of POST /api/calls/sync-active-calls: a failure, or the calls the
\* backend has cleaned.
SyncResponses ==
    {[ok |-> FALSE, cleanedCalls |-> {}]} \cup
    {[ok |-> TRUE, cleanedCalls |-> S] : S \in SUBSET CallIds}

\* A clean-up that empties the store instead of removing the listed calls.
cleanLocal_all(calls, cleanedCalls) == IF cleanedCalls = {} THEN calls ELSE EmptyMap

\* response.data.cleanedCalls.forEach(callId => rooms.endCall(callId))
RECURSIVE cleanLocal(_, _)
cleanLocal(calls, cleanedCalls) ==
    IF cleanedCalls = {} THEN calls
    ELSE LET c == CHOOSE x \in cleanedCalls : TRUE
         IN  cleanLocal(endCall(calls, c), cleanedCalls \ {c})

\* HeartbeatManager.performSync up to the request of syncExpertStatus.  The
\* passes are 15 s apart and each request times out after 5 s: one pass runs
\* at a time.
performSync ==
    /\ \A p \in pending : p.kind # "sync"
    /\ pending' = pending \cup {SyncPend("experts", DOMAIN activeCalls)}
    /\ lastOp' = Op("sync", NoId, NoId, "none", 0)
    /\ out' = << >>
    /\ reqs' = << Req("POST sync-online-status", NoId, "") >>
    /\ UNCHANGED << now, sockets, registryVars, activeCalls, timerVars, events >>

\* syncExpertStatus resumed (its outcome is only logged), then
\* syncActiveCalls up to its request (lines 79-96).
syncExpertStatus_done(p, ok) ==
    /\ p \in pending /\ p.kind = "sync" /\ p.stage = "experts"
    /\ IF p.callIds = {}
       THEN /\ pending' = pending \ {p}
            /\ reqs' = << >>
       ELSE /\ pending' = (pending \ {p}) \cup {SyncPend("calls", p.callIds)}
            /\ reqs' = << Req("POST sync-active-calls", NoId, "") >>
    /\ lastOp' = Op("sync_experts", NoId, NoId, IF ok THEN "ok" ELSE "fail", 0)
    /\ out' = << >>
    /\ UNCHANGED << now, sockets, registryVars, activeCalls, timerVars, events >>

\* syncActiveCalls resumed with the backend's answer (lines 98-109).
syncActiveCalls_done(p, resp) ==
    /\ p \in pending /\ p.kind = "sync" /\ p.stage = "calls"
    /\ pending' = pending \ {p}
    /\ activeCalls' = IF resp.ok THEN cleanLocal(activeCalls, resp.cleanedCalls) ELSE activeCalls
    /\ lastOp' = Op("sync_calls", NoId, NoId, IF resp.ok THEN "ok" ELSE "fail",
                    Cardinality((DOMAIN activeCalls) \ (DOMAIN activeCalls')))
    /\ out' = << >>
    /\ reqs' = << >>
    /\ UNCHANGED << now, sockets, registryVars, timerVars, events >>

\* Identities an expert status change names.
StatusChangeIds == ExpertIds \cup UserIds

\* The call requests and accepts that give the handlers beside the call
\* lifecycle sessions to act on.
NextSessions ==
    \/ \E s \in CallerSockets, c \in CallIdsNow, u \in UserIds \cup {NoId}, e \in ExpertIds :
           SocketEvent(s) /\ handleCallRequest(s, c, u, e) /\ History
    \/ \E p \in pending, resp \in StatusResponses : handleCallRequest_status(p, resp) /\ History
    \/ \E p \in pending, ok \in BOOLEAN : handleCallRequest_ringing_degraded(p, ok) /\ History
    \/ \E p \in pending, ok \in BOOLEAN : handleCallRequest_caller_info(p, ok) /\ History
    \/ \E p \in pending, ok \in BOOLEAN : handleCallRequest_ringing(p, ok) /\ History
    \/ \E s \in ExpertSockets, c \in CallIdsNow : SocketEvent(s) /\ handleAcceptCall(s, c) /\ History

\* Expert status changes and the signaling relay, over those sessions.
NextSignal ==
    \/ NextSessions
    \/ \E s \in Sockets, e \in StatusChangeIds, b \in BOOLEAN :
           SocketEvent(s) /\ handleExpertStatusChange(s, e, b) /\ History
    \/ \E p \in pending, resp \in StatusResponses : handleExpertStatusChange_status(p, resp) /\ History
    \/ \E s \in Sockets, k \in SignalKinds, c \in CallIdsNow :
           SocketEvent(s) /\ handleWebRTC(s, k, c) /\ History

SpecSignal == Registered /\ [][NextSignal]_vars

\* The reconciliation passes of the heartbeat, over those sessions.
NextSync ==
    \/ NextSessions
    \/ performSync /\ History
    \/ \E p \in pending, ok \in BOOLEAN : syncExpertStatus_done(p, ok) /\ History
    \/ \E p \in pending, resp \in SyncResponses : syncActiveCalls_done(p, resp) /\ History

SpecSync == Registered /\ [][NextSync]_vars

\* ------------------------------------------ socket.js: liveness watchdog
\* RoomManager.updateHeartbeat: the property is added to the stored record.
updateHeartbeat(calls, callId, userId, userType, t) ==
    IF callId \notin DOMAIN calls THEN calls
    ELSE IF userType = "user" \/ calls[callId].userId = userId
    THEN [calls EXCEPT ![callId] = MapSet(@, "lastUserHeartbeat", t)]
    ELSE IF userType = "expert" \/ calls[callId].expertId = userId
    THEN [calls EXCEPT ![callId] = MapSet(@, "lastExpertHeartbeat", t)]
    ELSE calls

\* A participant's heartbeat for a call is recorded.  No socket event of
\* socket.js calls updateHeartbeat; it is taken as an operation of the store.
recordHeartbeat(callId, userId, userType) ==
    /\ activeCalls' = updateHeartbeat(activeCalls, callId, userId, userType, now)
    /\ lastOp' = Op("heartbeat", NoId, callId,
                    IF hasCall(activeCalls, callId) THEN "ok" ELSE "not_found", 0)
    /\ out' = << >>
    /\ reqs' = << >>
    /\ UNCHANGED << now, sockets, registryVars, timerVars, pending, events >>

\* `call.lastUserHeartbeat || call.startTime` (lines 52-53), by property name.
heartbeatOrStart(call, property) ==
    IF property \in DOMAIN call /\ call[property] # Null THEN call[property] ELSE call.startTime

\* The sessions a scan at time t cuts (lines 50-56): connected, and the user
\* side's heartbeat older than the threshold.  timeSinceExpertHeartbeat is
\* computed at line 53 and not read.
staleCalls(calls, t) ==
    {c \in DOMAIN calls :
        /\ calls[c].status = "connected"
        /\ t - heartbeatOrStart(calls[c], "lastUserHeartbeat") > HEARTBEAT_TIMEOUT}

\* The id of the mock socket the watchdog hands to handleCallEnd (line 62).
SystemAutocut == "system_autocut"

\* The session of ids the Map iteration of line 50 visits first.
firstCall(calls, ids) == CHOOSE x \in ids : \A y \in ids : calls[x].createdAt <= calls[y].createdAt

\* handleCallEnd run up to its await for each session of ids in turn: the
\* notifications, the status requests and the suspended handlers.
RECURSIVE autocutOut(_, _, _)
autocutOut(calls, ids, t) ==
    IF ids = {} THEN << >>
    ELSE LET c == firstCall(calls, ids)
         IN  callEndEmits(calls[c], SystemAutocut, c, getCallDuration(calls, c, t)) \o
             << Msg("expert_busy_changed", "all", NoId, calls[c].expertId, NoDuration, FALSE, "") >> \o
             autocutOut(calls, ids \ {c}, t)

RECURSIVE autocutReqs(_, _)
autocutReqs(calls, ids) ==
    IF ids = {} THEN << >>
    ELSE LET c == firstCall(calls, ids)
         IN  << Req("GET status", calls[c].expertId, "") >> \o autocutReqs(calls, ids \ {c})

RECURSIVE autocutPending(_, _, _, _)
autocutPending(pend, calls, ids, t) ==
    IF ids = {} THEN pend
    ELSE LET c == firstCall(calls, ids)
             p == Fresh(pend, Pend("end", "status", SystemAutocut, c, calls[c].userId,
                                   calls[c].expertId, FALSE, calls[c].userSocketId,
                                   calls[c].expertSocketId, getCallDuration(calls, c, t)))
         IN  autocutPending(pend \cup {p}, calls, ids \ {c}, t)

\* One run of the 5 s interval callback of lines 45-69.
watchdogScan ==
    LET ids == staleCalls(activeCalls, now)
    IN  /\ out' = autocutOut(activeCalls, ids, now)
        /\ reqs' = autocutReqs(activeCalls, ids)
        /\ pending' = autocutPending(pending, activeCalls, ids, now)
        /\ activeCalls' = [c \in (DOMAIN activeCalls) \ ids |-> activeCalls[c]]
        /\ lastOp' = Op("watchdog", NoId, NoId, "none", Cardinality(ids))
        /\ UNCHANGED << now, sockets, registryVars, timerVars, events >>

\* Who records a heartbeat: (userId, userType).
HeartbeatInputs == {<< u, "user" >> : u \in UserIds} \cup {<< e, "expert" >> : e \in ExpertIds}

\* The watchdog over sessions that connect, heartbeat and age.
NextWatchdog ==
    \/ NextSessions
    \/ \E s \in Sockets, c \in CallIdsNow : SocketEvent(s) /\ handleCallConnected(s, c) /\ History
    \/ Tick /\ History
    \/ \E c \in CallIdsNow, i \in HeartbeatInputs : recordHeartbeat(c, i[1], i[2]) /\ History
    \/ watchdogScan /\ History
    \/ \E p \in pending, resp \in StatusResponses : handleCallEnd_status(p, resp) /\ History

SpecWatchdog == Registered /\ [][NextWatchdog]_vars

\* ------------------------------------- socket.js: busy status sync pass
\* The experts of the backend's list: those that connect here and one that
\* does not.
BackendExperts == ExpertIds \cup {"e2"}

\* Answers of GET /api/experts: a failure, or the list, of which the pass
\* reads the experts marked busy, in the list's order.
BusyLists ==
    {[ok |-> FALSE, busy |-> << >>], [ok |-> TRUE, busy |-> << >>]} \cup
    {[ok |-> TRUE, busy |-> << e >>] : e \in BackendExperts} \cup
    {[ok |-> TRUE, busy |-> << pair[1], pair[2] >>] :
        pair \in {q \in BackendExperts \X BackendExperts : q[1] # q[2]}}

\* The pass suspended at a backend request: at the GET of the list (stage
\* "list"), or at the PUT that clears expertId (stage "clear") with the busy
\* experts the loop has still to visit.
BusyPend(stage, expertId, todo) ==
    [kind |-> "busy_sync", stage |-> stage, socket |-> NoId, callId |-> NoId,
     expertId |-> expertId, todo |-> todo, n |-> 0]

\* Lines 78-86: the experts whose registered connection is gone or closed.
staleExperts == {e \in DOMAIN expertSockets : sockets[expertSockets[e]] # "open"}

\* The 30 s interval callback up to its GET (lines 73-94): stale expert
\* connections are evicted, then the list is requested.  One pass runs at a
\* time.
busySync ==
    /\ \A p \in pending : p.kind # "busy_sync"
    /\ onlineExperts' = onlineExperts \ staleExperts
    /\ expertSockets' = [e \in (DOMAIN expertSockets) \ staleExperts |-> expertSockets[e]]
    /\ socketToUser' = [x \in (DOMAIN socketToUser) \ {expertSockets[e] : e \in staleExperts} |->
                           socketToUser[x]]
    /\ pending' = pending \cup {BusyPend("list", NoId, << >>)}
    /\ lastOp' = Op("busy_sync", NoId, NoId, "none", Cardinality(staleExperts))
    /\ out' = << >>
    /\ reqs' = << Req("GET experts", NoId, "") >>
    /\ UNCHANGED << now, sockets, userSockets, activeCalls, timerVars, events >>

\* Lines 97-101: the loop skips the busy experts that have a session in the
\* store; what is left starts with the expert to clear.
RECURSIVE skipActive(_, _)
skipActive(calls, todo) ==
    IF todo = << >> THEN << >>
    ELSE IF getExpertActiveCalls(calls, Head(todo)) # {} THEN skipActive(calls, Tail(todo))
    ELSE todo

\* The loop runs from `todo` up to its next await (line 104) or to its end.
busySyncLoop(p, todo, opname, result) ==
    LET left == skipActive(activeCalls, todo)
    IN  /\ IF left = << >>
           THEN /\ pending' = pending \ {p}
                /\ reqs' = << >>
           ELSE /\ pending' = (pending \ {p}) \cup {BusyPend("clear", Head(left), Tail(left))}
                /\ reqs' = << Req("PUT set-online-internal", Head(left), "isBusy=false") >>
        /\ lastOp' = Op(opname, NoId, NoId, result, Len(left))

\* The pass resumed with the backend's list (lines 94-104); a failed GET
\* ends the pass in the catch of line 111.
busySync_list(p, resp) ==
    /\ p \in pending /\ p.kind = "busy_sync" /\ p.stage = "list"
    /\ IF resp.ok
       THEN busySyncLoop(p, resp.busy, "busy_sync_list", "ok")
       ELSE /\ pending' = pending \ {p}
            /\ reqs' = << >>
            /\ lastOp' = Op("busy_sync_list", NoId, NoId, "fail", 0)
    /\ out' = << >>
    /\ UNCHANGED << now, sockets, registryVars, activeCalls, timerVars, events >>

\* The pass resumed with the outcome of a clearing PUT (lines 104-113): on
\* success the broadcast and the rest of the loop; a failure throws to the
\* catch of line 111, which ends the pass.
busySync_cleared(p, ok) ==
    /\ p \in pending /\ p.kind = "busy_sync" /\ p.stage = "clear"
    /\ IF ok
       THEN /\ busySyncLoop(p, p.todo, "busy_sync_cleared", "ok")
            /\ out' = << Msg("expert_busy_changed", "all", NoId, p.expertId, NoDuration, FALSE, "") >>
       ELSE /\ pending' = pending \ {p}
            /\ reqs' = << >>
            /\ lastOp' = Op("busy_sync_cleared", NoId, NoId, "fail", 0)
            /\ out' = << >>
    /\ UNCHANGED << now, sockets, registryVars, activeCalls, timerVars, events >>

\* The busy sync pass over sessions that come and connections that close.
NextBusy ==
    \/ NextSessions
    \/ \E s \in Sockets : handleDisconnect(s) /\ History
    \/ \E p \in pending, ok \in BOOLEAN : handleDisconnect_settled(p, ok) /\ History
    \/ busySync /\ History
    \/ \E p \in pending, resp \in BusyLists : busySync_list(p, resp) /\ History
    \/ \E p \in pending, ok \in BOOLEAN : busySync_cleared(p, ok) /\ History

SpecBusy == Registered /\ [][NextBusy]_vars

\* ------------------------------------------- concurrent call requests
\* Call requests that arrive while earlier ones are suspended at a backend
\* request: the handler is entered for every event as it arrives, without
\* waiting for the handlers before it.
NextRace ==
    \/ \E s \in CallerSockets, c \in CallIdsNow, u \in UserIds \cup {NoId}, e \in ExpertIds :
           sockets[s] = "open" /\ handleCallRequest(s, c, u, e) /\ History
    \/ \E p \in pending, resp \in StatusResponses : handleCallRequest_status(p, resp) /\ History
    \/ \E p \in pending, ok \in BOOLEAN : handleCallRequest_ringing_degraded(p, ok) /\ History
    \/ \E p \in pending, ok \in BOOLEAN : handleCallRequest_caller_info(p, ok) /\ History
    \/ \E p \in pending, ok \in BOOLEAN : handleCallRequest_ringing(p, ok) /\ History

SpecRace == Registered /\ [][NextRace]_vars

\* ------------------------------------------------ counting terminations
\* The notifications that tell a caller its call is over.
TerminalEvents == {"call_rejected", "call_timeout", "call_ended"}

\* The positions of msgs that hold a terminal notification for callId sent
\* to a caller connection.
terminalsToCaller(msgs, callId) ==
    {i \in DOMAIN msgs : /\ msgs[i].ev \in TerminalEvents
                         /\ msgs[i].callId = callId
                         /\ msgs[i].to \in CallerSockets}

\* The positions of msgs that hold an expert_busy_changed(false) broadcast.
busyClears(msgs) ==
    {i \in DOMAIN msgs : msgs[i].ev = "expert_busy_changed" /\ ~msgs[i].flag}

\* The callIds the step just taken terminates: the one a reject, an end-call
\* or a resumed ring timeout names, the sessions a disconnect removes.
terminatedBy ==
    IF lastOp'.op \in {"reject_call", "end_call", "call_timeout"} THEN {lastOp'.callId} \cap CallIds
    ELSE IF lastOp'.op = "disconnect" THEN (DOMAIN activeCalls) \ (DOMAIN activeCalls')
    ELSE {}

\* The history with terminations counted: a callId is counted from the
\* first terminal notification to its caller (the first busy(false)
\* broadcast of a step that terminates it) until createCall stores a new
\* session under it.
HistoryTerminal ==
    /\ HistoryCore
    /\ LET created == IF lastOp'.op = "call_request_caller_info" THEN {lastOp'.callId} ELSE {}
       IN  terminated' =
               [caller |-> (terminated.caller \ created) \cup
                               {c \in CallIds : terminalsToCaller(out', c) # {}},
                busy |-> (terminated.busy \ created) \cup
                               (IF busyClears(out') # {} THEN terminatedBy ELSE {})]

NextTerminal ==
    \/ Tick /\ HistoryTerminal
    \/ \E s \in CallerSockets, c \in CallIdsNow, u \in UserIds \cup {NoId}, e \in ExpertIds :
           SocketEvent(s) /\ handleCallRequest(s, c, u, e) /\ HistoryTerminal
    \/ \E p \in pending, resp \in StatusResponses : handleCallRequest_status(p, resp) /\ HistoryTerminal
    \/ \E p \in pending, ok \in BOOLEAN : handleCallRequest_ringing_degraded(p, ok) /\ HistoryTerminal
    \/ \E p \in pending, ok \in BOOLEAN : handleCallRequest_caller_info(p, ok) /\ HistoryTerminal
    \/ \E p \in pending, ok \in BOOLEAN : handleCallRequest_ringing(p, ok) /\ HistoryTerminal
    \/ \E t \in timers : timerFires(t) /\ HistoryTerminal
    \/ \E p \in pending, ok \in BOOLEAN : handleCallTimeout_missed(p, ok) /\ HistoryTerminal
    \/ \E s \in ExpertSockets, c \in CallIdsNow : SocketEvent(s) /\ handleAcceptCall(s, c) /\ HistoryTerminal
    \/ \E s \in ExpertSockets, c \in CallIdsNow, r \in {"", "busy"} :
           SocketEvent(s) /\ handleRejectCall(s, c, r) /\ HistoryTerminal
    \/ \E s \in Sockets, c \in CallIdsNow : SocketEvent(s) /\ handleCallConnected(s, c) /\ HistoryTerminal
    \/ \E s \in Sockets, c \in CallIdsNow : SocketEvent(s) /\ handleCallEnd(s, c) /\ HistoryTerminal
    \/ \E p \in pending, resp \in StatusResponses : handleCallEnd_status(p, resp) /\ HistoryTerminal
    \/ \E s \in Sockets : handleDisconnect(s) /\ HistoryTerminal
    \/ \E p \in pending, ok \in BOOLEAN : handleDisconnect_settled(p, ok) /\ HistoryTerminal

SpecTerminal == Registered /\ [][NextTerminal]_vars

\* ----------------------------------------------------- re-registration
\* Registrations in which any connection names any identity in either role:
\* an identity registers again on another connection, a connection registers
\* under a second identity or role.
RebindInputs == Sockets \X (UserIds \cup ExpertIds) \X {"user", "expert"}

\* The registry under such registrations, disconnects and the evictions of
\* the busy sync pass.
NextRebind ==
    \/ \E s \in Sockets : connection(s) /\ History
    \/ \E i \in RebindInputs : SocketEvent(i[1]) /\ handleRegister(i[1], i[2], i[3]) /\ History
    \/ \E p \in pending, resp \in StatusResponses : handleRegister_status(p, resp) /\ History
    \/ \E p \in pending, ok \in BOOLEAN : handleRegister_clear(p, ok) /\ History
    \/ \E s \in Sockets : handleDisconnect(s) /\ History
    \/ busySync /\ History
    \/ \E p \in pending, resp \in BusyLists : busySync_list(p, resp) /\ History
    \/ \E p \in pending, ok \in BOOLEAN : busySync_cleared(p, ok) /\ History

SpecRebind == Init /\ [][NextRebind]_vars

\* --------------------------------------------- sessions left to themselves
\* Sessions are requested, accepted and connected; after that only the
\* clock, the ring timers and the watchdog act.
NextIdle ==
    \/ NextSessions
    \/ \E s \in Sockets, c \in CallIdsNow : SocketEvent(s) /\ handleCallConnected(s, c) /\ History
    \/ Tick /\ History
    \/ \E t \in timers : timerFires(t) /\ History
    \/ \E p \in pending, ok \in BOOLEAN : handleCallTimeout_missed(p, ok) /\ History
    \/ watchdogScan /\ History
    \/ \E p \in pending, resp \in StatusResponses : handleCallEnd_status(p, resp) /\ History

\* The clock advances, due timers fire, the 5 s watchdog interval runs and
\* suspended handlers are resumed.
FairnessIdle ==
    /\ WF_vars(Tick /\ History)
    /\ WF_vars(\E t \in timers : timerFires(t) /\ History)
    /\ WF_vars(watchdogScan /\ History)
    /\ WF_vars(\E p \in pending, resp \in StatusResponses :
                   (handleCallRequest_status(p, resp) \/ handleCallEnd_status(p, resp)) /\ History)
    /\ WF_vars(\E p \in pending, ok \in BOOLEAN :
                   /\ \/ handleCallRequest_ringing_degraded(p, ok)
                      \/ handleCallRequest_caller_info(p, ok)
                      \/ handleCallRequest_ringing(p, ok)
                      \/ handleCallTimeout_missed(p, ok)
                   /\ History)

SpecIdle == Registered /\ [][NextIdle]_vars /\ FairnessIdle

\* ------------------------------------------------ any connection acts
\* The call events as socket.js wires them: every connection can send every
\* event, whatever its side in the session the event names.
NextActors ==
    \/ \E s \in CallerSockets, c \in CallIdsNow, u \in UserIds \cup {NoId}, e \in ExpertIds :
           SocketEvent(s) /\ handleCallRequest(s, c, u, e) /\ History
    \/ \E p \in pending, resp \in StatusResponses : handleCallRequest_status(p, resp) /\ History
    \/ \E p \in pending, ok \in BOOLEAN : handleCallRequest_ringing_degraded(p, ok) /\ History
    \/ \E p \in pending, ok \in BOOLEAN : handleCallRequest_caller_info(p, ok) /\ History
    \/ \E p \in pending, ok \in BOOLEAN : handleCallRequest_ringing(p, ok) /\ History
    \/ \E s \in Sockets, c \in CallIdsNow : SocketEvent(s) /\ handleAcceptCall(s, c) /\ History
    \/ \E s \in Sockets, c \in CallIdsNow, r \in {"", "busy"} :
           SocketEvent(s) /\ handleRejectCall(s, c, r) /\ History
    \/ \E s \in Sockets, c \in CallIdsNow : SocketEvent(s) /\ handleCallConnected(s, c) /\ History
    \/ \E s \in Sockets, c \in CallIdsNow : SocketEvent(s) /\ handleCallEnd(s, c) /\ History
    \/ \E p \in pending, resp \in StatusResponses : handleCallEnd_status(p, resp) /\ History

SpecActors == Registered /\ [][NextActors]_vars

\* ------------------------------------------------------------ properties
\* The session callId references the connection on one of its two sides.
References(call, socket) == call.userSocketId = socket \/ call.expertSocketId = socket

\* The connection on the other side of the session from `socket`.
Counterpart(call, socket) ==
    IF call.userSocketId = socket THEN call.expertSocketId ELSE call.userSocketId

\* Number of call_ended notifications for callId among msgs that go to `to`.
CallEndedTo(msgs, callId, to) ==
    Cardinality({i \in DOMAIN msgs :
                    msgs[i].ev = "call_ended" /\ msgs[i].callId = callId /\ msgs[i].to = to})

\* Number of expert_busy_changed(isBusy = false) broadcasts for expertId.
BusyCleared(msgs, expertId) ==
    Cardinality({i \in DOMAIN msgs :
                    /\ msgs[i].ev = "expert_busy_changed" /\ msgs[i].to = "all"
                    /\ msgs[i].expertId = expertId /\ ~msgs[i].flag})

\* The duration a session that ends now has to report: whole seconds since
\* it first became connected, 0 if it never did.
ExpectedDuration(callId) ==
    IF connectedAt[callId] # Null THEN (now - connectedAt[callId]) \div 1000 ELSE 0

\* C1: when a connection closes, for each live session it was a side of, the
\* counterpart connection is sent exactly one call_ended for that session,
\* expert_busy_changed(false) for the session's expert is broadcast once per
\* such session, and the session is gone from the store; whether or not the
\* closed connection had registered.
C1_DisconnectNotifiesAndClears ==
    [][lastOp'.op = "disconnect" =>
          \A c \in DOMAIN activeCalls :
              References(activeCalls[c], lastOp'.socket) =>
                  /\ CallEndedTo(out', c, Counterpart(activeCalls[c], lastOp'.socket)) = 1
                  /\ BusyCleared(out', activeCalls[c].expertId) =
                         Cardinality({d \in DOMAIN activeCalls :
                                         /\ References(activeCalls[d], lastOp'.socket)
                                         /\ activeCalls[d].expertId = activeCalls[c].expertId})
                  /\ c \notin DOMAIN activeCalls']_vars

\* C2: every session that a connection close removes from the store has a
\* force-end request (reason socket_disconnect) issued to the backend for its
\* callId by that close.
C2_DisconnectForcesEnd ==
    [][lastOp'.op = "disconnect" =>
          \A c \in (DOMAIN activeCalls) \ (DOMAIN activeCalls') :
              \E i \in DOMAIN reqs' : reqs'[i] = Req("POST end-call", c, "socket_disconnect")]_vars

\* C3: no session of the store references, as caller or as expert
\* connection, a connection whose disconnect handling has run.
C3_NoSessionOnClosedConnection ==
    \A c \in DOMAIN activeCalls :
        \A s \in Sockets : sockets[s] = "closed" => ~References(activeCalls[c], s)

\* C4: creating a session under a callId the store already holds fails and
\* leaves the stored record as it was.
C4_CreateExistingIsConflict ==
    [][\A c \in DOMAIN activeCalls :
          (lastOp'.op = "call_request_caller_info" /\ lastOp'.callId = c) =>
              /\ lastOp'.result \in Failures
              /\ c \in DOMAIN activeCalls'
              /\ activeCalls'[c] = activeCalls[c]]_vars

\* Order of the statuses of a stored session.
StatusRank(status) ==
    CASE status = "ringing" -> 1
      [] status = "accepted" -> 2
      [] status = "connected" -> 3

\* C5: no accept, call-connected, reject, end, timeout or disconnect step
\* moves the status of a stored session backwards.
C5_StatusNeverMovesBack ==
    [][lastOp'.op \in {"accept_call", "call_connected", "reject_call", "end_call", "end_call_done",
                       "timer_normal", "timer_degraded", "call_timeout",
                       "disconnect", "disconnect_settled"} =>
          \A c \in (DOMAIN activeCalls) \cap (DOMAIN activeCalls') :
              StatusRank(activeCalls'[c].status) >= StatusRank(activeCalls[c].status)]_vars

\* C6: call-connected on a session that is ringing fails and leaves it
\* ringing with startTime unset.
C6_ConnectedOnlyFromAccepted ==
    [][\A c \in DOMAIN activeCalls :
          (lastOp'.op = "call_connected" /\ lastOp'.callId = c /\ activeCalls[c].status = "ringing") =>
              /\ lastOp'.result # "ok"
              /\ c \in DOMAIN activeCalls'
              /\ activeCalls'[c].status = "ringing"
              /\ activeCalls'[c].startTime = Null]_vars

\* An end-call has removed the session of callId: the step before was the
\* end-call that found it, or the session is absent and that end-call is
\* suspended at its backend request or has just completed.
EndedByEndCall(callId) ==
    \/ lastOp.op = "end_call" /\ lastOp.callId = callId /\ lastOp.result = "none"
    \/ /\ callId \notin DOMAIN activeCalls
       /\ \/ \E p \in pending : p.kind = "end" /\ p.callId = callId
          \/ lastOp.op = "end_call_done" /\ lastOp.callId = callId

\* C7: an end-call for a callId whose session an end-call has already removed
\* answers not-found, emits nothing (no call_ended, no expert_busy_changed)
\* and changes neither the store nor the registry.
C7_SecondEndIsNotFound ==
    [][\A c \in CallIds :
          (EndedByEndCall(c) /\ lastOp'.op = "end_call" /\ lastOp'.callId = c) =>
              /\ lastOp'.result = "not_found"
              /\ out' = << >>
              /\ activeCalls' = activeCalls
              /\ registryVars' = registryVars]_vars

\* C7 happens: an end-call was answered not-found while the end-call that
\* removed the session is still suspended at its backend request.
C7_Witness ==
    /\ lastOp.op = "end_call" /\ lastOp.result = "not_found"
    /\ \E p \in pending : p.kind = "end" /\ p.callId = lastOp.callId

\* C8: the duration reported when a session ends, in the call_ended
\* notifications of end-call and of disconnect and in what end-call returns,
\* is the whole number of seconds since the session became connected, and 0
\* for a session that never was connected.
C8_DurationIsFloorSeconds ==
    [][\A c \in DOMAIN activeCalls :
          /\ (lastOp'.op = "end_call" /\ lastOp'.callId = c) => lastOp'.ret = ExpectedDuration(c)
          /\ lastOp'.op \in {"end_call", "disconnect"} =>
                 \A i \in DOMAIN out' :
                     (out'[i].ev = "call_ended" /\ out'[i].callId = c) =>
                         out'[i].duration = ExpectedDuration(c)]_vars

\* C8 happens: an end-call reported a positive number of seconds that is
\* strictly less than the time elapsed, so the division rounded down.
C8_Witness ==
    /\ lastOp.op = "end_call" /\ lastOp.result = "none"
    /\ lastOp.ret > 0
    /\ lastOp.ret * 1000 < now - T0
    /\ \E i \in DOMAIN out : out[i].ev = "call_ended" /\ out[i].duration = lastOp.ret

\* A participant of a session that has been connected issues end-call.
ParticipantEnds(c) ==
    /\ c \in DOMAIN activeCalls
    /\ connectedAt[c] # Null
    /\ lastOp'.op = "end_call" /\ lastOp'.callId = c
    /\ References(activeCalls[c], lastOp'.socket)

C10_BusyExpertRequestFails ==
    [][\A p \in pending, resp \in StatusResponses :
          (resp.ok /\ resp.isBusy /\ handleCallRequest_status(p, resp)) =>
              /\ lastOp'.result \in Failures
              /\ p \notin pending'
              /\ activeCalls' = activeCalls
              /\ timers' = timers
              /\ callTimeouts' = callTimeouts
              /\ \A i \in DOMAIN out' : out'[i].ev \notin {"incoming_call", "expert_busy_changed"}]_vars

\* C10 happens: a call request was refused as busy while the store holds no
\* ringing or connected session of any expert, so on the backend's word.
C10_Witness ==
    /\ lastOp.op = "call_request_status" /\ lastOp.result = "busy"
    /\ \A e \in ExpertIds : ~isExpertBusy(activeCalls, e)

\* C11: a call request whose status answer from the backend says the expert
\* is not online is answered with a failure at once and creates no session,
\* whatever the local online set and the expert's registration.
C11_OfflineExpertRequestFails ==
    [][\A p \in pending, resp \in StatusResponses :
          (resp.ok /\ ~resp.isOnline /\ handleCallRequest_status(p, resp)) =>
              /\ lastOp'.result \in Failures
              /\ p \notin pending'
              /\ \A q \in pending' \ pending : q.kind # "call_request"
              /\ activeCalls' = activeCalls]_vars

\* C14: a call request that succeeds on the path without an expert
\* connection (backend says online and not busy) leaves a ringing session of
\* its callId in the store and the degraded ring timer armed for it.
C14_DegradedRequestCreatesSession ==
    [][(lastOp'.op = "call_request_degraded" /\ lastOp'.result = "ok") =>
          /\ lastOp'.callId \in DOMAIN activeCalls'
          /\ activeCalls'[lastOp'.callId].status = "ringing"
          /\ \E t \in timers' : t.callId = lastOp'.callId /\ t.kind = "degraded"]_vars

\* C19: the store never holds two sessions with the same caller connection,
\* nor two with the same expert connection.
C19_OneSessionPerConnection ==
    \A c, d \in DOMAIN activeCalls :
        c # d => /\ activeCalls[c].userSocketId # activeCalls[d].userSocketId
                 /\ activeCalls[c].expertSocketId # activeCalls[d].expertSocketId

\* The step is the createCall of a call request for callId: the record it
\* leaves is a new session.
Creates(callId) == lastOp'.op = "call_request_caller_info" /\ lastOp'.callId = callId

\* C20: startTime of a session is unset while the session has never been
\* connected, is set (to the time of the step) by the call-connected that
\* first connects it, and no later step on the session changes it.
C20_StartTimeSetOnce ==
    [][\A c \in (DOMAIN activeCalls) \cap (DOMAIN activeCalls') :
          ~Creates(c) =>
              /\ activeCalls[c].startTime # Null =>
                     activeCalls'[c].startTime = activeCalls[c].startTime
              /\ (activeCalls[c].startTime = Null /\ activeCalls'[c].startTime # Null) =>
                     /\ lastOp'.op = "call_connected" /\ lastOp'.callId = c
                     /\ activeCalls'[c].startTime = now
              /\ activeCalls'[c].status = "connected" => activeCalls'[c].startTime # Null
              /\ activeCalls'[c].startTime = connectedAt'[c]]_vars

\* C20 happens: a call-connected was accepted for a session whose startTime
\* is earlier than the time of that step.
C20_Witness ==
    /\ lastOp.op = "call_connected" /\ lastOp.result = "ok"
    /\ lastOp.callId \in DOMAIN activeCalls
    /\ activeCalls[lastOp.callId].startTime # Null
    /\ activeCalls[lastOp.callId].startTime < now

\* The store holds a ringing session of callId.
Ringing(callId) == callId \in DOMAIN activeCalls /\ activeCalls[callId].status = "ringing"

\* A connection of the stored session of callId has closed.
LostConnection(callId) ==
    /\ callId \in DOMAIN activeCalls
    /\ \E x \in Sockets : sockets[x] = "closed" /\ References(activeCalls[callId], x)

\* The clock of the model has a step left.
ClockCanAdvance == now < T0 + MaxTicks * TickMs

\* What a ring timeout that finds its session does: the timer's callback
\* asks the backend to mark the call missed; the resumed handler, whatever
\* the backend answered, sends call_timeout to the caller connection,
\* broadcasts expert_busy_changed(false) and removes the session.
TimeoutEffects ==
    /\ (lastOp'.op \in {"timer_normal", "timer_degraded"} /\ lastOp'.result = "none") =>
           \E i \in DOMAIN reqs' : reqs'[i] = Req("PUT status", lastOp'.callId, "missed")
    /\ (lastOp'.op = "call_timeout" /\ lastOp'.callId \in DOMAIN activeCalls) =>
           /\ \E i \in DOMAIN out' :
                  /\ out'[i].ev = "call_timeout" /\ out'[i].callId = lastOp'.callId
                  /\ out'[i].to = activeCalls[lastOp'.callId].userSocketId
           /\ BusyCleared(out', activeCalls[lastOp'.callId].expertId) = 1
           /\ lastOp'.callId \notin DOMAIN activeCalls'

\* C12: a ringing session does not stay ringing for ever: unless it is
\* accepted, rejected, ended or loses a connection first, its ring timeout
\* fires, with the effects above, and the session leaves the store.
C12_RingingTimesOut ==
    /\ \A c \in CallIds : (Ringing(c) /\ ClockCanAdvance) ~> (~Ringing(c) \/ LostConnection(c))
    /\ [][TimeoutEffects]_vars

\* C15: when the ringing request to the backend fails during a call request,
\* the caller is answered with a failure, no session of the callId is in the
\* store, the request has armed no timer and sent neither incoming_call nor
\* expert_busy_changed, and every session that was in the store before the
\* request is still there unchanged: the request has overwritten none and its
\* last step touches none.
C15_RingingFailureLeavesNoTrace ==
    [][(/\ lastOp'.op \in {"call_request_ringing", "call_request_degraded"}
        /\ lastOp'.result = "backend_error") =>
          /\ lastOp'.op = "call_request_ringing" => lastOp'.callId \notin DOMAIN activeCalls'
          /\ lastOp'.op = "call_request_degraded" => activeCalls' = activeCalls
          /\ timers' = timers /\ callTimeouts' = callTimeouts
          /\ \A i \in DOMAIN out' : out'[i].ev \notin {"incoming_call", "expert_busy_changed"}
          /\ lastOp'.callId \notin replaced
          /\ \A d \in (DOMAIN activeCalls) \ {lastOp'.callId} :
                 d \in DOMAIN activeCalls' /\ activeCalls'[d] = activeCalls[d]]_vars

\* C13: when a reconciliation pass is answered with the calls the backend
\* has cleaned, each of them is gone from the store, nothing is emitted to
\* any connection, and every other session and the registry are unchanged.
C13_StaleCallsRemovedSilently ==
    [][\A p \in pending, resp \in SyncResponses :
          (resp.ok /\ syncActiveCalls_done(p, resp)) =>
              /\ \A x \in resp.cleanedCalls : x \notin DOMAIN activeCalls'
              /\ out' = << >>
              /\ \A d \in (DOMAIN activeCalls) \ resp.cleanedCalls :
                     d \in DOMAIN activeCalls' /\ activeCalls'[d] = activeCalls[d]
              /\ registryVars' = registryVars]_vars

\* C13 happens: a reconciliation pass removed a session and left another.
C13_Witness ==
    /\ lastOp.op = "sync_calls" /\ lastOp.result = "ok" /\ lastOp.ret > 0
    /\ activeCalls # EmptyMap
    /\ out = << >>

\* C16: a signaling message for an existing session from the connection
\* bound to the session's caller is forwarded to the expert's registered
\* connection, one from the connection bound to the session's expert is
\* forwarded to the caller's registered connection, when that connection is
\* in the registry; and it is forwarded to no other connection.
C16_SignalReachesCounterpart ==
    [][\A s \in Sockets, k \in SignalKinds, c \in DOMAIN activeCalls :
          (s \in DOMAIN socketToUser /\ handleWebRTC(s, k, c)) =>
              LET call == activeCalls[c]
                  id == socketToUser[s].userId
                  fromCaller == id = call.userId /\ call.expertId \in DOMAIN expertSockets
                  fromExpert == id = call.expertId /\ call.userId \in DOMAIN userSockets
              IN  /\ fromCaller =>
                         out' = << Msg(k, expertSockets[call.expertId], c, call.expertId,
                                       NoDuration, TRUE, "") >>
                  /\ fromExpert =>
                         out' = << Msg(k, userSockets[call.userId], c, call.expertId,
                                       NoDuration, TRUE, "") >>
                  /\ ~(fromCaller \/ fromExpert) => out' = << >>]_vars

\* C17: an expert status change from a connection that the registry does not
\* bind to the named expert as an expert is dropped: no backend request, no
\* broadcast, nothing suspended, registry and store unchanged.
C17_UnauthorizedStatusChangeDropped ==
    [][\A s \in Sockets, e \in StatusChangeIds, b \in BOOLEAN :
          (/\ ~(/\ s \in DOMAIN socketToUser
                /\ socketToUser[s].userId = e
                /\ socketToUser[s].userType = "expert")
           /\ handleExpertStatusChange(s, e, b)) =>
              /\ reqs' = << >>
              /\ out' = << >>
              /\ pending' = pending
              /\ registryVars' = registryVars
              /\ activeCalls' = activeCalls]_vars

\* C17 happens: a status change from a connection bound as a user was dropped.
C17_Witness ==
    /\ lastOp.op = "expert_status_change" /\ lastOp.result = "unauthorized"
    /\ lastOp.socket \in DOMAIN socketToUser
    /\ socketToUser[lastOp.socket].userType = "user"
    /\ reqs = << >>

\* C18: the expert_status_changed broadcast of an authorized status change
\* carries the isOnline the backend answered, and the broadcasts are those of
\* the run that differs only in the isOnline of the request payload.
C18_BroadcastIsBackendTruth ==
    [][\A p \in pending, resp \in StatusResponses :
          (resp.ok /\ handleExpertStatusChange_status(p, resp)) =>
              /\ out' = statusChangeEmits([p EXCEPT !.isOnline = ~p.isOnline], resp)
              /\ \E i \in DOMAIN out' : out'[i].ev = "expert_status_changed"
              /\ \A i \in DOMAIN out' :
                     out'[i].ev = "expert_status_changed" =>
                         out'[i].flag = resp.isOnline /\ out'[i].expertId = p.expertId]_vars

\* C18 happens: an authorized status change was answered by the backend and
\* broadcast, with an isOnline other than the local online set has.
C18_Witness ==
    /\ lastOp.op = "expert_status_synced" /\ lastOp.result = "ok"
    /\ \E i \in DOMAIN out :
           /\ out[i].ev = "expert_status_changed"
           /\ out[i].flag # (out[i].expertId \in onlineExperts)

\* C21: an accept for a callId whose session the disconnect path has removed
\* is answered not-found, sends no notification, and leaves the store as it
\* is (no session re-created, none modified).
C21_AcceptAfterFailSafeNotFound ==
    [][\A s \in ExpertSockets, c \in CallIds :
          (c \in cut /\ c \notin DOMAIN activeCalls /\ SocketEvent(s) /\ handleAcceptCall(s, c)) =>
              /\ lastOp'.op = "accept_call" /\ lastOp'.result = "not_found"
              /\ out' = << >>
              /\ activeCalls' = activeCalls]_vars

\* C21 happens: the expert's accept found the session its caller's
\* disconnect had removed.
C21_Witness ==
    /\ lastOp.op = "accept_call" /\ lastOp.result = "not_found"
    /\ lastOp.callId \in cut
    /\ \E s \in CallerSockets : sockets[s] = "closed"

\* C22: the ring timer armed for a session created against a reachable
\* expert connection is due 30 seconds after the call request is answered.
C22_RingTimerIsThirtySeconds ==
    [][(lastOp'.op = "call_request_ringing" /\ lastOp'.result = "ok") =>
          /\ lastOp'.callId \in DOMAIN callTimeouts'
          /\ callTimeouts'[lastOp'.callId].due = now + 30000]_vars

\* C23: the start timestamp a call-connected returns to the invoking side is
\* the stored startTime of the session, on the first and on every later
\* call-connected for it.
C23_ConnectedReturnsStartTime ==
    [][(lastOp'.op = "call_connected" /\ lastOp'.result = "ok") =>
          /\ lastOp'.callId \in DOMAIN activeCalls'
          /\ lastOp'.ret = activeCalls'[lastOp'.callId].startTime]_vars

\* C24: when no handler is suspended, a ring timer is held for a callId only
\* if the store holds a session for that callId in status ringing.
C24_TimerOnlyWhileRinging ==
    pending = {} => \A c \in DOMAIN callTimeouts : Ringing(c)

\* C25: a ring timer that fires for a callId without a session in the store
\* does nothing: the store is unchanged, nothing is emitted, no backend
\* request is issued and no handler is left suspended.
C25_LateTimerIsNoOp ==
    [][\A t \in timers :
          (t.callId \notin DOMAIN activeCalls /\ timerFires(t)) =>
              /\ activeCalls' = activeCalls
              /\ out' = << >>
              /\ reqs' = << >>
              /\ pending' = pending]_vars

\* C25 happens: the timer of a session that a disconnect removed has fired.
C25_Witness ==
    /\ lastOp.op \in {"timer_normal", "timer_degraded"}
    /\ lastOp.result \in {"skipped", "not_found"}
    /\ lastOp.callId \in cut
    /\ lastOp.callId \notin DOMAIN activeCalls

\* C26: a scan of the liveness watchdog removes every connected session one
\* of whose sides has its last heartbeat (startTime, if none was recorded)
\* older than the threshold, whatever the age of the other side's.
C26_WatchdogCutsEitherStaleSide ==
    [][lastOp'.op = "watchdog" =>
          \A c \in DOMAIN activeCalls :
              (/\ activeCalls[c].status = "connected"
               /\ \/ now - heartbeatOrStart(activeCalls[c], "lastExpertHeartbeat") > HEARTBEAT_TIMEOUT
                  \/ now - heartbeatOrStart(activeCalls[c], "lastUserHeartbeat") > HEARTBEAT_TIMEOUT)
                  => c \notin DOMAIN activeCalls']_vars

\* C27: for every session a watchdog scan ends, both participants are sent
\* call_ended with the duration and a disconnect reason,
\* expert_busy_changed(false) is broadcast, a force-end request for the
\* callId goes to the backend, its timer is cancelled and dropped, and the
\* session is gone: the effects of the disconnect path on a session.
C27_WatchdogEndsLikeDisconnect ==
    [][lastOp'.op = "watchdog" =>
          \A c \in (DOMAIN activeCalls) \ (DOMAIN activeCalls') :
              LET call == activeCalls[c]
              IN  /\ \A to \in {call.userSocketId, call.expertSocketId} :
                         \E i \in DOMAIN out' :
                             /\ out'[i].ev = "call_ended" /\ out'[i].callId = c /\ out'[i].to = to
                             /\ out'[i].duration = getCallDuration(activeCalls, c, now)
                             /\ out'[i].reason # ""
                  /\ BusyCleared(out', call.expertId) >= 1
                  /\ \E i \in DOMAIN reqs' : reqs'[i].api = "POST end-call" /\ reqs'[i].id = c
                  /\ c \notin DOMAIN callTimeouts'
                  /\ \A t \in timers' : t.callId # c]_vars

\* The elements of a sequence.
Range(seq) == {seq[i] : i \in DOMAIN seq}

\* C28: in a busy sync pass that has the backend's list, a clearing write is
\* issued for every busy expert without a session in the store (so the pass
\* goes on to the next such expert whatever the outcome of the write before),
\* a cleared expert is broadcast as not busy, and no clearing write is
\* issued for an expert that has a session in the store.
C28_BusySyncClearsEveryIdleExpert ==
    [][\A p \in pending :
          p.kind = "busy_sync" =>
              /\ \A ok \in BOOLEAN :
                     (p.stage = "clear" /\ busySync_cleared(p, ok)) =>
                         /\ ok => BusyCleared(out', p.expertId) = 1
                         /\ \A e \in Range(p.todo) :
                                getExpertActiveCalls(activeCalls, e) = {} =>
                                    \/ \E i \in DOMAIN reqs' :
                                           reqs'[i] = Req("PUT set-online-internal", e, "isBusy=false")
                                    \/ \E q \in pending' : q.kind = "busy_sync" /\ e \in Range(q.todo)
              /\ (p \notin pending' /\ lastOp'.op \in {"busy_sync_list", "busy_sync_cleared"}) =>
                     \A i \in DOMAIN reqs' :
                         reqs'[i].api = "PUT set-online-internal" =>
                             getExpertActiveCalls(activeCalls, reqs'[i].id) = {}]_vars

\* C29: after the eviction of a sync pass, no binding of userSockets or of
\* expertSockets names a closed connection, and socketToUser has no entry
\* for a closed connection.
C29_NoBindingToClosedConnection ==
    [][lastOp'.op = "busy_sync" =>
          /\ \A u \in DOMAIN userSockets' : sockets[userSockets'[u]] = "open"
          /\ \A e \in DOMAIN expertSockets' : sockets[expertSockets'[e]] = "open"
          /\ \A x \in DOMAIN socketToUser' : sockets[x] = "open"]_vars

\* C30: an expert never has two sessions in status ringing or connected at
\* the same time, also when call requests for the expert overlap.
C30_OneLiveSessionPerExpert ==
    \A e \in ExpertIds :
        Cardinality({c \in DOMAIN activeCalls :
                        /\ activeCalls[c].expertId = e
                        /\ activeCalls[c].status \in {"ringing", "connected"}}) <= 1

\* C31: the ring timeout's resumed handler removes the session and sends
\* call_timeout only if the session is ringing at that moment; otherwise
\* (the session was accepted meanwhile) the store is left as it is and no
\* call_timeout is sent.
C31_TimeoutOnlyWhileRinging ==
    [][\A p \in pending, ok \in BOOLEAN :
          (p.kind = "timeout" /\ handleCallTimeout_missed(p, ok) /\ ~Ringing(p.callId)) =>
              /\ activeCalls' = activeCalls
              /\ \A i \in DOMAIN out' : out'[i].ev # "call_timeout"]_vars

\* C32: over the life of a session its caller connection is sent at most one
\* of call_rejected, call_timeout and call_ended, and the steps that
\* terminate it broadcast expert_busy_changed(false) at most once in all.
C32_OneTerminalNotification ==
    [][\A c \in CallIds :
          ~Creates(c) =>
              /\ Cardinality(terminalsToCaller(out', c))
                     + (IF c \in terminated.caller THEN 1 ELSE 0) <= 1
              /\ c \in terminatedBy =>
                     Cardinality(busyClears(out'))
                         + (IF c \in terminated.busy THEN 1 ELSE 0) <= 1]_vars

\* C33: closing a connection leaves every binding of userSockets and of
\* expertSockets that points at another connection as it is (an identity
\* that registered again elsewhere is still looked up there).
C33_DisconnectKeepsOtherBindings ==
    [][\A s \in Sockets :
          (lastOp'.op = "disconnect" /\ lastOp'.socket = s) =>
              /\ \A i \in DOMAIN userSockets :
                     userSockets[i] # s =>
                         i \in DOMAIN userSockets' /\ userSockets'[i] = userSockets[i]
              /\ \A i \in DOMAIN expertSockets :
                     expertSockets[i] # s =>
                         i \in DOMAIN expertSockets' /\ expertSockets'[i] = expertSockets[i]]_vars

\* C34: the two directions of the registry agree: an identity bound to a
\* connection in userSockets or expertSockets is the identity socketToUser
\* has for that connection, and the identity socketToUser has for a
\* connection is bound to it in the map of its role.
C34_RegistryDirectionsAgree ==
    /\ \A i \in DOMAIN userSockets :
           /\ userSockets[i] \in DOMAIN socketToUser
           /\ socketToUser[userSockets[i]].userId = i
    /\ \A i \in DOMAIN expertSockets :
           /\ expertSockets[i] \in DOMAIN socketToUser
           /\ socketToUser[expertSockets[i]].userId = i
    /\ \A x \in DOMAIN socketToUser :
           LET i == socketToUser[x].userId
           IN  IF socketToUser[x].userType = "user"
               THEN i \in DOMAIN userSockets /\ userSockets[i] = x
               ELSE i \in DOMAIN expertSockets /\ expertSockets[i] = x

\* The step taken last was a socket event of a participant.
ParticipantActed ==
    lastOp.op \in {"call_request", "accept_call", "reject_call", "call_connected", "end_call"}

\* C35: with the ring timers and the watchdog running and both connections
\* open, once the participants send nothing more a session does not stay in
\* the store forever; in particular a session that is accepted is
\* eventually removed, unless it became connected (and is then the
\* watchdog's to end).
C35_AcceptedSessionEventuallyRemoved ==
    (<>[](~ParticipantActed)) =>
        \A c \in CallIds :
            (c \in DOMAIN activeCalls /\ activeCalls[c].status = "accepted" /\ ClockCanAdvance)
                ~> (c \notin DOMAIN activeCalls \/ activeCalls[c].status = "connected")

\* C36: an accept or a reject for callId from a connection other than the
\* session's expert connection, and a call-connected or an end-call from a
\* connection that is neither of the session's two, leaves the store as it
\* is and sends nothing to the session's participants.
C36_OnlyParticipantsAct ==
    [][\A s \in Sockets, c \in DOMAIN activeCalls :
          LET call == activeCalls[c]
              sides == {call.userSocketId, call.expertSocketId}
              untouched == /\ activeCalls' = activeCalls
                           /\ \A i \in DOMAIN out' : out'[i].to \notin sides
          IN  (lastOp'.socket = s /\ lastOp'.callId = c) =>
                  /\ (lastOp'.op \in {"accept_call", "reject_call"} /\ s # call.expertSocketId)
                         => untouched
                  /\ (lastOp'.op \in {"call_connected", "end_call"} /\ s \notin sides)
                         => untouched]_vars

====
